---- MODULE Spec2Model ----
(***************************************************************************)
(* A model of the incremental NATS protocol parsers of this repository:    *)
(* Parser (parser.py), Parser300 (parser_300.py), Parser310                *)
(* (parser_310.py).  Bytes are integers 0..255, byte strings and str       *)
(* values are sequences of them (chr() maps a byte to the code point of    *)
(* the same number), events and parsers are records.                       *)
(***************************************************************************)
EXTENDS Integers, Sequences, FiniteSets, TLC

(***************************************************************************)
(* class Character                                                         *)
(***************************************************************************)
Character_plus == 43
Character_minus == 45
Character_o == 111
Character_O == 79
Character_k == 107
Character_K == 75
Character_e == 101
Character_E == 69
Character_r == 114
Character_R == 82
Character_p == 112
Character_P == 80
Character_s == 115
Character_S == 83
Character_h == 104
Character_H == 72
Character_m == 109
Character_M == 77
Character_g == 103
Character_G == 71
Character_i == 105
Character_I == 73
Character_n == 110
Character_N == 78
Character_f == 102
Character_F == 70
Character_space == 32
Character_newline == 10
Character_carriage_return == 13
Character_left_json_bracket == 123

CRLF == <<Character_carriage_return, Character_newline>>
CRLF_SIZE == 2
STOP_HEADER == CRLF \o CRLF

(***************************************************************************)
(* Python built-ins the parsers use, on sequences of bytes / code points.  *)
(***************************************************************************)

\* Python's clamping of a slice bound to 0..len (negative bounds count from the end).
SliceBound(k, len) ==
    IF k < 0 THEN (IF k + len < 0 THEN 0 ELSE k + len)
    ELSE (IF k > len THEN len ELSE k)

\* s[lo:hi]
Slice(s, lo, hi) ==
    LET a == SliceBound(lo, Len(s))
        b == SliceBound(hi, Len(s))
    IN IF a < b THEN SubSeq(s, a + 1, b) ELSE <<>>

\* s[lo:]
SliceFrom(s, lo) == Slice(s, lo, Len(s))

\* s[:hi]
SliceTo(s, hi) == Slice(s, 0, hi)

\* s.find(sub): the 0-based index of the first occurrence of sub, -1 when absent.
Find(s, sub) ==
    LET hits == {k \in 0..(Len(s) - Len(sub)) : SubSeq(s, k + 1, k + Len(sub)) = sub}
    IN IF hits = {} THEN -1 ELSE CHOOSE k \in hits : \A j \in hits : k <= j

\* s.split(sep) for a one-byte separator: every occurrence cuts, empty tokens are kept.
RECURSIVE SplitFrom(_, _, _)
SplitFrom(s, sep, cur) ==
    IF s = <<>> THEN <<cur>>
    ELSE IF Head(s) = sep THEN <<cur>> \o SplitFrom(Tail(s), sep, <<>>)
    ELSE SplitFrom(Tail(s), sep, Append(cur, Head(s)))

Split(s, sep) == SplitFrom(s, sep, <<>>)

IsDigit(b) == b \in 48..57

RECURSIVE DigitsValue(_, _)
DigitsValue(s, acc) ==
    IF s = <<>> THEN acc ELSE DigitsValue(Tail(s), 10 * acc + (Head(s) - 48))

\* int(token): an optional sign, then one or more decimal digits; anything else
\* raises ValueError.  (Whitespace and underscores, which int() also accepts in
\* places, are not in the alphabet of the modelled streams.)
PyInt(tok) ==
    LET signed == tok # <<>> /\ Head(tok) \in {Character_plus, Character_minus}
        digits == IF signed THEN Tail(tok) ELSE tok
        ok     == digits # <<>> /\ \A k \in 1..Len(digits) : IsDigit(digits[k])
    IN IF ~ok THEN [ok |-> FALSE, val |-> 0]
       ELSE [ok  |-> TRUE,
             val |-> IF signed /\ Head(tok) = Character_minus
                     THEN 0 - DigitsValue(digits, 0)
                     ELSE DigitsValue(digits, 0)]

(***************************************************************************)
(* Exceptions.  A call's outcome is an exception record; NoExc is a normal  *)
(* return.                                                                 *)
(***************************************************************************)
NoExc == [type |-> "None", invalid_byte |-> -1, bad_value |-> <<>>]

\* class ProtocolError(invalid_byte, bad_value)
ProtocolError(invalid_byte, bad_value) ==
    [type |-> "ProtocolError", invalid_byte |-> invalid_byte, bad_value |-> bad_value]

\* Any other exception type: only its type is modelled.
OtherExc(type) == [type |-> type, invalid_byte |-> -1, bad_value |-> <<>>]

(***************************************************************************)
(* Events (class Operation, Event, ErrorEvent, MsgEvent, Version,          *)
(* InfoEvent).                                                             *)
(***************************************************************************)
None == [operation |-> "None"]

Event(operation) == [operation |-> operation]

\* An error event whose message has lost the single quotes around it.
ErrorEvent_unquoted(operation, message) ==
    [operation |-> operation,
     message   |-> IF message = <<>> THEN <<>>
                   ELSE Slice(message,
                              IF Head(message) = 39 THEN 1 ELSE 0,
                              IF message[Len(message)] = 39
                              THEN Len(message) - 1 ELSE Len(message))]
ErrorEvent(operation, message) == [operation |-> operation, message |-> message]

MsgEvent(operation, sid, subject, reply_to, payload, header) ==
    [operation |-> operation, sid |-> sid, subject |-> subject,
     reply_to |-> reply_to, payload |-> payload, header |-> header]

Version(major, minor, patch, dev) ==
    [major |-> major, minor |-> minor, patch |-> patch, dev |-> dev]

(***************************************************************************)
(* json.loads, for the documents the modelled streams carry: one flat       *)
(* object without whitespace or escapes, whose values are strings,          *)
(* integers, true, false or null.  A value is a tagged record whose v is a  *)
(* sequence of integers; the object is the sequence of its <<key, value>>   *)
(* members in document order.  Every other text the streams carry is no     *)
(* JSON at all and raises JSONDecodeError.                                  *)
(***************************************************************************)
JsonStr(v) == [t |-> "str", v |-> v]
JsonInt(k) == [t |-> "int", v |-> <<k>>]
JsonBool(b) == [t |-> "bool", v |-> <<IF b THEN 1 ELSE 0>>]
JsonNull == [t |-> "null", v |-> <<>>]

At(d, k) == IF k \in 1..Len(d) THEN d[k] ELSE -1

Matches(d, k, lit) == k + Len(lit) - 1 <= Len(d) /\ SubSeq(d, k, k + Len(lit) - 1) = lit

\* The index of the quote closing the string opened at d[k], 0 when there is none
\* (or when the string holds a backslash or a control character).
StringEnd(d, k) ==
    LET ends == {j \in (k + 1)..Len(d) : d[j] = 34}
    IN IF ends = {} THEN 0
       ELSE LET j == CHOOSE e \in ends : \A f \in ends : e <= f
            IN IF \A c \in (k + 1)..(j - 1) : d[c] >= 32 /\ d[c] # 92 THEN j ELSE 0

\* The index after the last digit of the run of digits starting at d[k].
RECURSIVE DigitsEnd(_, _)
DigitsEnd(d, k) == IF IsDigit(At(d, k)) THEN DigitsEnd(d, k + 1) ELSE k

JsonFail == [ok |-> FALSE, val |-> JsonNull, next |-> 0]

\* The JSON value that starts at d[k], and the index after it.
JsonValue(d, k) ==
    LET c == At(d, k) IN
    CASE c = 34 ->
            LET j == StringEnd(d, k)
            IN IF j = 0 THEN JsonFail
               ELSE [ok |-> TRUE, val |-> JsonStr(SubSeq(d, k + 1, j - 1)), next |-> j + 1]
      [] c = Character_minus \/ IsDigit(c) ->
            LET b == IF c = Character_minus THEN k + 1 ELSE k
                e == DigitsEnd(d, b)
            IN IF e = b \/ (At(d, b) = 48 /\ e > b + 1) \/ At(d, e) \in {46, 69, 101}
               THEN JsonFail
               ELSE [ok |-> TRUE, val |-> JsonInt(PyInt(SubSeq(d, k, e - 1)).val), next |-> e]
      [] Matches(d, k, <<116, 114, 117, 101>>) ->
            [ok |-> TRUE, val |-> JsonBool(TRUE), next |-> k + 4]
      [] Matches(d, k, <<102, 97, 108, 115, 101>>) ->
            [ok |-> TRUE, val |-> JsonBool(FALSE), next |-> k + 5]
      [] Matches(d, k, <<110, 117, 108, 108>>) ->
            [ok |-> TRUE, val |-> JsonNull, next |-> k + 4]
      [] OTHER -> JsonFail

\* The members of an object from d[k] on (d[k] opens a key), up to the closing
\* brace, which must end the document.
RECURSIVE JsonMembers(_, _, _)
JsonMembers(d, k, acc) ==
    LET j == IF At(d, k) = 34 THEN StringEnd(d, k) ELSE 0 IN
    IF j = 0 \/ At(d, j + 1) # 58 THEN [ok |-> FALSE, obj |-> <<>>]
    ELSE LET r   == JsonValue(d, j + 2)
             mem == Append(acc, <<SubSeq(d, k + 1, j - 1), r.val>>)
         IN IF ~r.ok THEN [ok |-> FALSE, obj |-> <<>>]
            ELSE IF At(d, r.next) = 44 THEN JsonMembers(d, r.next + 1, mem)
            ELSE IF At(d, r.next) = 125 /\ r.next = Len(d) THEN [ok |-> TRUE, obj |-> mem]
            ELSE [ok |-> FALSE, obj |-> <<>>]

json_loads(d) ==
    IF At(d, 1) # Character_left_json_bracket THEN [ok |-> FALSE, obj |-> <<>>]
    ELSE IF At(d, 2) = 125 THEN [ok |-> Len(d) = 2, obj |-> <<>>]
    ELSE JsonMembers(d, 2, <<>>)

\* key in obj
HasKey(obj, key) == \E k \in 1..Len(obj) : obj[k][1] = key

\* obj.get(key): the value of the last member named key, None (null) when absent.
DictGet(obj, key) ==
    IF ~HasKey(obj, key) THEN JsonNull
    ELSE LET hits == {k \in 1..Len(obj) : obj[k][1] = key}
         IN obj[CHOOSE k \in hits : \A j \in hits : j <= k][2]

\* bytes.decode(): UTF-8.  ASCII bytes decode to the code points of the same
\* number; of the bytes above 0x7f the streams carry only lone ones, which are
\* no UTF-8 and raise UnicodeDecodeError.
Decode(d) ==
    IF \E k \in 1..Len(d) : d[k] >= 128 THEN [ok |-> FALSE, text |-> <<>>]
    ELSE [ok |-> TRUE, text |-> d]

(***************************************************************************)
(* parse_version, parse_info                                               *)
(***************************************************************************)
\* The result of a decoder: val when exc = NoExc.
Decoded(val) == [exc |-> NoExc, val |-> val]
Failed(type) == [exc |-> OtherExc(type), val |-> None]

parse_version(version) ==
    IF version.t # "str" THEN Failed("AttributeError")
    ELSE
    LET v      == Split(version.v, Character_minus)
        dev    == IF Len(v) > 1 THEN v[2] ELSE <<>>
        tokens == Split(v[1], 46)
        n      == Len(tokens)
        major  == IF n > 1 THEN PyInt(tokens[1]) ELSE [ok |-> TRUE, val |-> 0]
        minor  == IF n > 2 THEN PyInt(tokens[2]) ELSE [ok |-> TRUE, val |-> 0]
        patch  == IF n > 3 THEN PyInt(tokens[3]) ELSE [ok |-> TRUE, val |-> 0]
    IN IF major.ok /\ minor.ok /\ patch.ok
       THEN Decoded(Version(major.val, minor.val, patch.val, dev))
       ELSE Failed("ValueError")

K_server_id == <<115, 101, 114, 118, 101, 114, 95, 105, 100>>
K_server_name == <<115, 101, 114, 118, 101, 114, 95, 110, 97, 109, 101>>
K_version == <<118, 101, 114, 115, 105, 111, 110>>
K_go == <<103, 111>>
K_host == <<104, 111, 115, 116>>
K_port == <<112, 111, 114, 116>>
K_headers == <<104, 101, 97, 100, 101, 114, 115>>
K_proto == <<112, 114, 111, 116, 111>>
K_max_payload == <<109, 97, 120, 95, 112, 97, 121, 108, 111, 97, 100>>
K_client_id == <<99, 108, 105, 101, 110, 116, 95, 105, 100>>
K_auth_required == <<97, 117, 116, 104, 95, 114, 101, 113, 117, 105, 114, 101, 100>>
K_tls_required == <<116, 108, 115, 95, 114, 101, 113, 117, 105, 114, 101, 100>>
K_tls_verify == <<116, 108, 115, 95, 118, 101, 114, 105, 102, 121>>
K_tls_available == <<116, 108, 115, 95, 97, 118, 97, 105, 108, 97, 98, 108, 101>>
K_connect_urls == <<99, 111, 110, 110, 101, 99, 116, 95, 117, 114, 108, 115>>
K_ws_connect_urls == <<119, 115, 95, 99, 111, 110, 110, 101, 99, 116, 95, 117, 114, 108, 115>>
K_ldm == <<108, 100, 109>>
K_git_commit == <<103, 105, 116, 95, 99, 111, 109, 109, 105, 116>>
K_jetstream == <<106, 101, 116, 115, 116, 114, 101, 97, 109>>
K_ip == <<105, 112>>
K_client_ip == <<99, 108, 105, 101, 110, 116, 95, 105, 112>>
K_nonce == <<110, 111, 110, 99, 101>>
K_cluster == <<99, 108, 117, 115, 116, 101, 114>>
K_domain == <<100, 111, 109, 97, 105, 110>>
K_xkey == <<120, 107, 101, 121>>

\* The keys read with raw_info[...], in the order the call evaluates them.
RequiredKeys ==
    <<K_server_id, K_server_name, K_version, K_go, K_host, K_port, K_headers, K_proto>>

InfoEvent(raw_info, version) ==
    [operation       |-> "INFO",
     server_id       |-> DictGet(raw_info, K_server_id),
     server_name     |-> DictGet(raw_info, K_server_name),
     version         |-> version,
     go              |-> DictGet(raw_info, K_go),
     host            |-> DictGet(raw_info, K_host),
     port            |-> DictGet(raw_info, K_port),
     headers         |-> DictGet(raw_info, K_headers),
     proto           |-> DictGet(raw_info, K_proto),
     max_payload     |-> DictGet(raw_info, K_max_payload),
     client_id       |-> DictGet(raw_info, K_client_id),
     auth_required   |-> DictGet(raw_info, K_auth_required),
     tls_required    |-> DictGet(raw_info, K_tls_required),
     tls_verify      |-> DictGet(raw_info, K_tls_verify),
     tls_available   |-> DictGet(raw_info, K_tls_available),
     connect_urls    |-> DictGet(raw_info, K_connect_urls),
     ws_connect_urls |-> DictGet(raw_info, K_ws_connect_urls),
     ldm             |-> DictGet(raw_info, K_ldm),
     git_commit      |-> DictGet(raw_info, K_git_commit),
     jetstream       |-> DictGet(raw_info, K_jetstream),
     ip              |-> DictGet(raw_info, K_ip),
     client_ip       |-> DictGet(raw_info, K_client_ip),
     nonce           |-> DictGet(raw_info, K_nonce),
     cluster         |-> DictGet(raw_info, K_cluster),
     domain          |-> DictGet(raw_info, K_domain),
     xkey            |-> DictGet(raw_info, K_xkey)]

\* parse_info(data): the first exception in evaluation order, else the event.
parse_info(data) ==
    LET text == Decode(data) IN
    IF ~text.ok THEN Failed("UnicodeDecodeError")
    ELSE
    LET loaded   == json_loads(text.text)
        raw_info == loaded.obj
        missing  == {k \in 1..Len(RequiredKeys) : ~HasKey(raw_info, RequiredKeys[k])}
        first    == IF missing = {} THEN Len(RequiredKeys) + 1
                    ELSE CHOOSE k \in missing : \A j \in missing : k <= j
        version  == IF HasKey(raw_info, K_version)
                    THEN parse_version(DictGet(raw_info, K_version))
                    ELSE Failed("KeyError")
    IN IF ~loaded.ok THEN Failed("JSONDecodeError")
       ELSE IF first <= 3 THEN Failed("KeyError")
       ELSE IF version.exc # NoExc THEN version
       ELSE IF missing # {} THEN Failed("KeyError")
       ELSE Decoded(InfoEvent(raw_info, version.val))

(***************************************************************************)
(* class Parser (parser.py).  __loop__ is the generator __parse__: every    *)
(* yield of it is followed by continue, so a resumed generator starts at    *)
(* the head of the while loop and its only state is "suspended" (created    *)
(* or waiting at a yield) or "finished" (returned or raised).               *)
(***************************************************************************)

\* make_history(max_length), with __debug__ on: a deque holding OP_START whose
\* maxlen is max_length + 1, or None (here -1) for max_length = -1.
make_history(max_length) ==
    [items |-> <<"OP_START">>, maxlen |-> IF max_length >= 0 THEN max_length + 1 ELSE -1]

\* deque.append: a full deque drops its oldest item.
DequeAppend(dq, x) ==
    LET all == Append(dq.items, x)
    IN [dq EXCEPT !.items = IF dq.maxlen >= 0 /\ Len(all) > dq.maxlen
                            THEN SubSeq(all, Len(all) - dq.maxlen + 1, Len(all))
                            ELSE all]

\* Parser.__init__
Parser_init(debug_max_history) ==
    [closed               |-> FALSE,
     state_history        |-> make_history(debug_max_history),
     data_received        |-> <<>>,
     events_received      |-> <<>>,
     partial_ascii_text   |-> <<>>,
     expected_header_size |-> 0,
     expected_total_size  |-> 0,
     partial_msg          |-> None,
     loop                 |-> "suspended"]

\* Parser(debug_max_history): make_history raises ValueError below -1.
Parser_new(debug_max_history) ==
    IF debug_max_history < -1 THEN [p |-> None, exc |-> OtherExc("ValueError")]
    ELSE [p |-> Parser_init(debug_max_history), exc |-> NoExc]

\* Parser.state
Parser_state(p) == p.state_history.items[Len(p.state_history.items)]

\* set_state as it is without __debug__: the last state is overwritten.
set_state_last(p, state) ==
    [p EXCEPT !.state_history.items = [@ EXCEPT ![Len(@)] = state]]

\* set_state, the __debug__ variant
set_state(p, state) == [p EXCEPT !.state_history = DequeAppend(@, state)]

\* How one pass through the body of the while loop ends.
Continue(p) == [p |-> p, ctl |-> "continue", exc |-> NoExc]
Yield(p) == [p |-> p, ctl |-> "yield", exc |-> NoExc]
\* A raise that throws the pending events away.
RaiseExc_clear(p, exc) ==
    [p |-> [p EXCEPT !.events_received = <<>>], ctl |-> "raise", exc |-> exc]
RaiseExc(p, exc) == [p |-> p, ctl |-> "raise", exc |-> exc]
\* A raise that reports the byte after the one read.
Raise_next(p, next_byte, pending_data) ==
    RaiseExc(p, ProtocolError(IF pending_data = <<>> THEN -1 ELSE Head(pending_data),
                              pending_data))
Raise(p, next_byte, pending_data) == RaiseExc(p, ProtocolError(next_byte, pending_data))

\* Branches that accept the upper-case letters only.
Expect_upper(p, next_byte, pending_data, accepted, nxt) ==
    IF next_byte \in accepted /\ next_byte < Character_e
    THEN Continue(set_state(p, nxt))
    ELSE [p |-> p, ctl |-> "raise", exc |-> ProtocolError(next_byte, pending_data)]

\* Branches that take every byte for the accepted one.
Expect_any(p, next_byte, pending_data, accepted, nxt) == Continue(set_state(p, nxt))

\* The branches "if next_byte is one of accepted: set_state(nxt) else raise".
Expect(p, next_byte, pending_data, accepted, nxt) ==
    IF next_byte \in accepted THEN Continue(set_state(p, nxt))
    ELSE Raise(p, next_byte, pending_data)

\* MSG_ARG taking every line of three arguments or more, the last one the size.
Parser_msg_args_last(p0, next_byte, pending_data) ==
    LET p      == [set_state(p0, "MSG_END") EXCEPT !.partial_ascii_text = <<>>]
        args   == Split(p0.partial_ascii_text, Character_space)
        nbargs == Len(args)
        reply_to == IF nbargs >= 4 THEN args[3] ELSE <<>>
        sid   == PyInt(args[2])
        total == PyInt(args[nbargs])
    IN IF nbargs < 3 THEN Raise(p, next_byte, pending_data)
       ELSE IF ~sid.ok \/ ~total.ok THEN Raise(p, next_byte, pending_data)
       ELSE Continue([p EXCEPT
               !.expected_total_size = total.val,
               !.partial_msg = MsgEvent("MSG", sid.val, args[1], reply_to, <<>>, <<>>)])

\* A MSG_ARG that takes all the text between the sid and the last argument as
\* the reply subject.
Parser_msg_args_span(p0, next_byte, pending_data) ==
    LET p      == [set_state(p0, "MSG_END") EXCEPT !.partial_ascii_text = <<>>]
        text   == p0.partial_ascii_text
        args   == Split(text, Character_space)
        nbargs == Len(args)
        reply_to == IF nbargs >= 4
                    THEN Slice(text, Len(args[1]) + Len(args[2]) + 2,
                               Len(text) - Len(args[nbargs]) - 1)
                    ELSE <<>>
        sid   == PyInt(args[2])
        total == PyInt(args[nbargs])
    IN IF nbargs < 3 THEN Raise(p, next_byte, pending_data)
       ELSE IF ~sid.ok \/ ~total.ok THEN Raise(p, next_byte, pending_data)
       ELSE Continue([p EXCEPT
               !.expected_total_size = total.val,
               !.partial_msg = MsgEvent("MSG", sid.val, args[1], reply_to, <<>>, <<>>)])

\* A MSG_ARG that reads the sizes and creates no partial message.
Parser_msg_args_bare(p0, next_byte, pending_data) ==
    LET p      == [set_state(p0, "MSG_END") EXCEPT !.partial_ascii_text = <<>>]
        args   == Split(p0.partial_ascii_text, Character_space)
        nbargs == Len(args)
        raw_total_size == IF nbargs = 4 THEN args[4] ELSE args[3]
        sid   == PyInt(args[2])
        total == PyInt(raw_total_size)
    IN IF nbargs # 4 /\ nbargs # 3 THEN Raise(p, next_byte, pending_data)
       ELSE IF ~sid.ok \/ ~total.ok THEN Raise(p, next_byte, pending_data)
       ELSE Continue([p EXCEPT !.expected_total_size = total.val])

\* state == MSG_ARG, next_byte == carriage_return
Parser_msg_args(p0, next_byte, pending_data) ==
    LET p      == [set_state(p0, "MSG_END") EXCEPT !.partial_ascii_text = <<>>]
        args   == Split(p0.partial_ascii_text, Character_space)
        nbargs == Len(args)
        reply_to       == IF nbargs = 4 THEN args[3] ELSE <<>>
        raw_total_size == IF nbargs = 4 THEN args[4] ELSE args[3]
        sid   == PyInt(args[2])
        total == PyInt(raw_total_size)
    IN IF nbargs # 4 /\ nbargs # 3 THEN Raise(p, next_byte, pending_data)
       ELSE IF ~sid.ok \/ ~total.ok THEN Raise(p, next_byte, pending_data)
       ELSE Continue([p EXCEPT
               !.expected_total_size = total.val,
               !.partial_msg = MsgEvent("MSG", sid.val, args[1], reply_to, <<>>, <<>>)])

\* An HMSG_ARG that keeps the argument text once it has split it.
Parser_hmsg_args_keep(p0, next_byte, pending_data) ==
    LET p      == p0
        args   == Split(p0.partial_ascii_text, Character_space)
        nbargs == Len(args)
        reply_to        == IF nbargs = 5 THEN args[3] ELSE <<>>
        raw_header_size == IF nbargs = 5 THEN args[4] ELSE args[3]
        raw_total_size  == IF nbargs = 5 THEN args[5] ELSE args[4]
        header == PyInt(raw_header_size)
        total  == PyInt(raw_total_size)
        sid    == PyInt(args[2])
    IN IF nbargs # 5 /\ nbargs # 4 THEN Raise(p, next_byte, pending_data)
       ELSE IF ~header.ok THEN Raise(p, next_byte, pending_data)
       ELSE IF ~total.ok
            THEN Raise([p EXCEPT !.expected_header_size = header.val],
                       next_byte, pending_data)
       ELSE IF ~sid.ok
            THEN Raise([p EXCEPT !.expected_header_size = header.val,
                                 !.expected_total_size = total.val],
                       next_byte, pending_data)
       ELSE Continue(set_state(
               [p EXCEPT
                  !.expected_header_size = header.val,
                  !.expected_total_size = total.val,
                  !.partial_msg = MsgEvent("HMSG", sid.val, args[1], reply_to, <<>>, <<>>)],
               "HMSG_END"))

\* state == HMSG_ARG, next_byte == carriage_return
Parser_hmsg_args(p0, next_byte, pending_data) ==
    LET p      == [p0 EXCEPT !.partial_ascii_text = <<>>]
        args   == Split(p0.partial_ascii_text, Character_space)
        nbargs == Len(args)
        reply_to        == IF nbargs = 5 THEN args[3] ELSE <<>>
        raw_header_size == IF nbargs = 5 THEN args[4] ELSE args[3]
        raw_total_size  == IF nbargs = 5 THEN args[5] ELSE args[4]
        header == PyInt(raw_header_size)
        total  == PyInt(raw_total_size)
        sid    == PyInt(args[2])
    IN IF nbargs # 5 /\ nbargs # 4 THEN Raise(p, next_byte, pending_data)
       ELSE IF ~header.ok THEN Raise(p, next_byte, pending_data)
       ELSE IF ~total.ok
            THEN Raise([p EXCEPT !.expected_header_size = header.val],
                       next_byte, pending_data)
       ELSE IF ~sid.ok
            THEN Raise([p EXCEPT !.expected_header_size = header.val,
                                 !.expected_total_size = total.val],
                       next_byte, pending_data)
       ELSE Continue(set_state(
               [p EXCEPT
                  !.expected_header_size = header.val,
                  !.expected_total_size = total.val,
                  !.partial_msg = MsgEvent("HMSG", sid.val, args[1], reply_to, <<>>, <<>>)],
               "HMSG_END"))

\* state == HMSG_PAYLOAD.  p is the parser with next_byte already taken off
\* the buffer; pending_data is the buffer with next_byte put back.
Parser_hmsg_payload(p, next_byte, pending_data) ==
    IF Len(pending_data) >= p.expected_total_size + CRLF_SIZE
    THEN LET msg    == p.partial_msg
             header == SliceTo(pending_data, p.expected_header_size)
         IN IF Slice(header, -4, Len(header)) # STOP_HEADER
            THEN Raise([p EXCEPT !.partial_msg = None], next_byte, pending_data)
            ELSE Continue(set_state(set_state(
                   [p EXCEPT
                      !.partial_msg = None,
                      !.data_received =
                          SliceFrom(pending_data, p.expected_total_size + CRLF_SIZE),
                      !.events_received = Append(@,
                          [msg EXCEPT
                             !.header = SliceTo(header, -4),
                             !.payload = Slice(pending_data, p.expected_header_size,
                                               p.expected_total_size)])],
                   "OP_END"), "OP_START"))
    ELSE Yield([p EXCEPT !.data_received = pending_data])

\* A MSG_PAYLOAD that suspends once it has appended the event.
Parser_msg_payload_pause(p, next_byte, pending_data) ==
    IF Len(pending_data) >= p.expected_total_size + CRLF_SIZE
    THEN Yield(set_state(set_state(
            [p EXCEPT
               !.partial_msg = None,
               !.data_received =
                   SliceFrom(pending_data, p.expected_total_size + CRLF_SIZE),
               !.events_received = Append(@,
                   [p.partial_msg EXCEPT
                       !.payload = SliceTo(pending_data, p.expected_total_size)])],
            "OP_END"), "OP_START"))
    ELSE Yield([p EXCEPT !.data_received = pending_data])

\* A MSG_PAYLOAD that, short of bytes, does not put the byte it took back.
Parser_msg_payload_drop(p, next_byte, pending_data) ==
    IF Len(pending_data) >= p.expected_total_size + CRLF_SIZE
    THEN Continue(set_state(set_state(
            [p EXCEPT
               !.partial_msg = None,
               !.data_received =
                   SliceFrom(pending_data, p.expected_total_size + CRLF_SIZE),
               !.events_received = Append(@,
                   [p.partial_msg EXCEPT
                       !.payload = SliceTo(pending_data, p.expected_total_size)])],
            "OP_END"), "OP_START"))
    ELSE Yield(p)

\* A payload read up to the first CRLF of the buffer.
Parser_msg_payload_crlf(p, next_byte, pending_data) ==
    LET end == Find(pending_data, CRLF) IN
    IF end >= 0
    THEN Continue(set_state(set_state(
            [p EXCEPT
               !.partial_msg = None,
               !.data_received = SliceFrom(pending_data, end + CRLF_SIZE),
               !.events_received = Append(@,
                   [p.partial_msg EXCEPT !.payload = SliceTo(pending_data, end)])],
            "OP_END"), "OP_START"))
    ELSE Yield([p EXCEPT !.data_received = pending_data])

\* state == MSG_PAYLOAD
Parser_msg_payload(p, next_byte, pending_data) ==
    IF Len(pending_data) >= p.expected_total_size + CRLF_SIZE
    THEN LET msg == p.partial_msg
         IN Continue(set_state(set_state(
               [p EXCEPT
                  !.partial_msg = None,
                  !.data_received =
                      SliceFrom(pending_data, p.expected_total_size + CRLF_SIZE),
                  !.events_received = Append(@,
                      [msg EXCEPT !.payload = SliceTo(pending_data, p.expected_total_size)])],
               "OP_END"), "OP_START"))
    ELSE Yield([p EXCEPT !.data_received = pending_data])

\* self._events_received.append(parse_info(...)) on a parser q: the exception
\* of parse_info leaves the loop as it is, else its event is appended.
AppendInfo(q, info) ==
    IF info.exc # NoExc THEN RaiseExc(q, info.exc)
    ELSE Continue([q EXCEPT !.events_received = Append(@, info.val)])

\* An INFO_ARG that goes back to the head of the loop, without suspending, when
\* the buffer holds no CRLF yet.
Parser_info_arg_spin(p, next_byte, pending) ==
    LET end == Find(pending, CRLF) IN
    IF end >= 0
    THEN AppendInfo(set_state(set_state(
                        [p EXCEPT !.data_received = SliceFrom(pending, end + CRLF_SIZE)],
                        "OP_END"), "OP_START"),
                    parse_info(SliceTo(pending, end)))
    ELSE Continue([p EXCEPT !.data_received = pending])

\* An INFO_ARG that throws away what the buffer holds after the CRLF.
Parser_info_arg_greedy(p, next_byte, pending) ==
    LET end == Find(pending, CRLF) IN
    IF end >= 0
    THEN AppendInfo(set_state(set_state([p EXCEPT !.data_received = <<>>],
                                        "OP_END"), "OP_START"),
                    parse_info(SliceTo(pending, end)))
    ELSE Yield([p EXCEPT !.data_received = pending])

\* state == INFO_ARG
Parser_info_arg(p, next_byte, pending) ==
    LET end == Find(pending, CRLF) IN
    IF end >= 0
    THEN AppendInfo(set_state(set_state(
                        [p EXCEPT !.data_received = SliceFrom(pending, end + CRLF_SIZE)],
                        "OP_END"), "OP_START"),
                    parse_info(SliceTo(pending, end)))
    ELSE Yield([p EXCEPT !.data_received = pending])

\* One pass through the body of the while loop of Parser.__parse__, entered
\* with a non-empty buffer: take the first byte and branch on the state.
Parser_step(p0) ==
    LET next_byte    == Head(p0.data_received)
        pending_data == Tail(p0.data_received)
        p            == [p0 EXCEPT !.data_received = pending_data]
        state        == Parser_state(p0)
        text         == [p EXCEPT !.partial_ascii_text = Append(@, next_byte)]
    IN
    CASE state = "OP_START" ->
            IF next_byte \in {Character_M, Character_m} THEN Continue(set_state(p, "OP_M"))
            ELSE IF next_byte \in {Character_H, Character_h} THEN Continue(set_state(p, "OP_H"))
            ELSE IF next_byte \in {Character_P, Character_p} THEN Continue(set_state(p, "OP_P"))
            ELSE IF next_byte \in {Character_I, Character_i} THEN Continue(set_state(p, "OP_I"))
            ELSE IF next_byte = Character_plus THEN Continue(set_state(p, "OP_PLUS"))
            ELSE IF next_byte = Character_minus THEN Continue(set_state(p, "OP_MINUS"))
            ELSE Raise(p, next_byte, pending_data)
      [] state = "OP_H" ->
            Expect(p, next_byte, pending_data, {Character_m, Character_M}, "OP_HM")
      [] state = "OP_HM" ->
            Expect(p, next_byte, pending_data, {Character_s, Character_S}, "OP_HMS")
      [] state = "OP_HMS" ->
            Expect(p, next_byte, pending_data, {Character_g, Character_G}, "OP_HMSG")
      [] state = "OP_HMSG" ->
            Expect(p, next_byte, pending_data, {Character_space}, "OP_HMSG_SPC")
      [] state = "OP_HMSG_SPC" ->
            IF next_byte \in {Character_carriage_return, Character_newline, Character_space}
            THEN Raise(p, next_byte, pending_data)
            ELSE Continue(set_state(text, "HMSG_ARG"))
      [] state = "HMSG_ARG" ->
            IF next_byte = Character_carriage_return
            THEN Parser_hmsg_args(p, next_byte, pending_data)
            ELSE IF next_byte = Character_newline THEN Raise(p, next_byte, pending_data)
            ELSE Continue(text)
      [] state = "HMSG_END" ->
            Expect(p, next_byte, pending_data, {Character_newline}, "HMSG_PAYLOAD")
      [] state = "HMSG_PAYLOAD" ->
            Parser_hmsg_payload(p, next_byte, <<next_byte>> \o pending_data)
      [] state = "OP_M" ->
            Expect(p, next_byte, pending_data, {Character_s, Character_S}, "OP_MS")
      [] state = "OP_MS" ->
            Expect(p, next_byte, pending_data, {Character_g, Character_G}, "OP_MSG")
      [] state = "OP_MSG" ->
            Expect(p, next_byte, pending_data, {Character_space}, "OP_MSG_SPC")
      [] state = "OP_MSG_SPC" ->
            IF next_byte \in {Character_carriage_return, Character_newline, Character_space}
            THEN Raise(p, next_byte, pending_data)
            ELSE Continue(set_state(text, "MSG_ARG"))
      [] state = "MSG_ARG" ->
            IF next_byte = Character_carriage_return
            THEN Parser_msg_args(p, next_byte, pending_data)
            ELSE IF next_byte = Character_newline THEN Raise(p, next_byte, pending_data)
            ELSE Continue(text)
      [] state = "MSG_END" ->
            Expect(p, next_byte, pending_data, {Character_newline}, "MSG_PAYLOAD")
      [] state = "MSG_PAYLOAD" ->
            Parser_msg_payload(p, next_byte, <<next_byte>> \o pending_data)
      [] state = "OP_I" ->
            Expect(p, next_byte, pending_data, {Character_n, Character_N}, "OP_IN")
      [] state = "OP_IN" ->
            Expect(p, next_byte, pending_data, {Character_f, Character_F}, "OP_INF")
      [] state = "OP_INF" ->
            Expect(p, next_byte, pending_data, {Character_o, Character_O}, "OP_INFO")
      [] state = "OP_INFO" ->
            Expect(p, next_byte, pending_data, {Character_space}, "OP_INFO_SPC")
      [] state = "OP_INFO_SPC" ->
            IF next_byte = Character_left_json_bracket
            THEN Continue([set_state(p, "INFO_ARG") EXCEPT
                              !.data_received = <<next_byte>> \o pending_data])
            ELSE Raise(p, next_byte, pending_data)
      [] state = "INFO_ARG" ->
            Parser_info_arg(p, next_byte, <<next_byte>> \o pending_data)
      [] state = "OP_PLUS" ->
            Expect(p, next_byte, pending_data, {Character_o, Character_O}, "OP_PLUS_O")
      [] state = "OP_PLUS_O" ->
            Expect(p, next_byte, pending_data, {Character_k, Character_K}, "OP_PLUS_OK")
      [] state = "OP_PLUS_OK" ->
            IF next_byte = Character_carriage_return
            THEN Continue([set_state(p, "OP_END") EXCEPT
                              !.events_received = Append(@, Event("OK"))])
            ELSE Raise(p, next_byte, pending_data)
      [] state = "OP_MINUS" ->
            Expect(p, next_byte, pending_data, {Character_e, Character_E}, "OP_MINUS_E")
      [] state = "OP_MINUS_E" ->
            Expect(p, next_byte, pending_data, {Character_r, Character_R}, "OP_MINUS_ER")
      [] state = "OP_MINUS_ER" ->
            Expect(p, next_byte, pending_data, {Character_r, Character_R}, "OP_MINUS_ERR")
      [] state = "OP_MINUS_ERR" ->
            Expect(p, next_byte, pending_data, {Character_space}, "OP_MINUS_ERR_SPC")
      [] state = "OP_MINUS_ERR_SPC" ->
            IF next_byte \in {Character_carriage_return, Character_newline}
            THEN Raise(p, next_byte, pending_data)
            ELSE Continue(set_state(text, "MINUS_ERR_ARG"))
      [] state = "MINUS_ERR_ARG" ->
            IF next_byte = Character_carriage_return
            THEN Continue([set_state(p, "OP_END") EXCEPT
                              !.events_received =
                                  Append(@, ErrorEvent("ERR", p.partial_ascii_text)),
                              !.partial_ascii_text = <<>>])
            ELSE IF next_byte = Character_newline THEN Raise(p, next_byte, pending_data)
            ELSE Continue(text)
      [] state = "OP_P" ->
            IF next_byte \in {Character_i, Character_I} THEN Continue(set_state(p, "OP_PI"))
            ELSE IF next_byte \in {Character_o, Character_O} THEN Continue(set_state(p, "OP_PO"))
            ELSE Raise(p, next_byte, pending_data)
      [] state = "OP_PI" ->
            Expect(p, next_byte, pending_data, {Character_n, Character_N}, "OP_PIN")
      [] state = "OP_PIN" ->
            Expect(p, next_byte, pending_data, {Character_g, Character_G}, "OP_PING")
      [] state = "OP_PING" ->
            IF next_byte = Character_carriage_return
            THEN Continue([set_state(p, "OP_END") EXCEPT
                              !.events_received = Append(@, Event("PING"))])
            ELSE Raise(p, next_byte, pending_data)
      [] state = "OP_PO" ->
            Expect(p, next_byte, pending_data, {Character_n, Character_N}, "OP_PON")
      [] state = "OP_PON" ->
            Expect(p, next_byte, pending_data, {Character_g, Character_G}, "OP_PONG")
      [] state = "OP_PONG" ->
            IF next_byte = Character_carriage_return
            THEN Continue([set_state(p, "OP_END") EXCEPT
                              !.events_received = Append(@, Event("PONG"))])
            ELSE Raise(p, next_byte, pending_data)
      [] state = "OP_END" ->
            Expect(p, next_byte, pending_data, {Character_newline}, "OP_START")
      [] OTHER -> Raise(p, next_byte, pending_data)

\* The while loop of Parser.__parse__, from its head to the next yield, return
\* or raise: the outcome of next(self.__loop__) on a suspended generator.
RECURSIVE Parser_loop(_), Parser_after(_)
Parser_loop(p) ==
    IF p.closed THEN [p |-> [p EXCEPT !.loop = "finished"], exc |-> OtherExc("StopIteration")]
    ELSE IF p.data_received = <<>> THEN [p |-> p, exc |-> NoExc]
    ELSE Parser_after(Parser_step(p))

\* A loop that suspends after every pass, whatever is left in the buffer.
Parser_after_once(r) ==
    IF r.ctl = "raise" THEN [p |-> [r.p EXCEPT !.loop = "finished"], exc |-> r.exc]
    ELSE [p |-> r.p, exc |-> NoExc]

\* Where a pass r through the body leads: continue goes back to the head of
\* the loop, yield suspends the generator, raise ends it.
Parser_after(r) ==
    CASE r.ctl = "continue" -> Parser_loop(r.p)
      [] r.ctl = "yield" -> [p |-> r.p, exc |-> NoExc]
      [] OTHER -> [p |-> [r.p EXCEPT !.loop = "finished"], exc |-> r.exc]

\* A parse() that starts a new generator when the old one is finished.
Parser_parse_restart(p, data) ==
    Parser_loop([p EXCEPT !.data_received = @ \o data, !.loop = "suspended"])

\* A parse() that leaves the chunk out of the buffer once the generator has
\* ended.
Parser_parse_refuse(p, data) ==
    IF p.loop = "finished" THEN [p |-> p, exc |-> OtherExc("StopIteration")]
    ELSE Parser_loop([p EXCEPT !.data_received = @ \o data])

\* Parser.parse(data): the parser after the call and the exception the call
\* raised.  next() on a finished generator raises StopIteration.
Parser_parse(p, data) ==
    LET q == [p EXCEPT !.data_received = @ \o data]
    IN IF q.loop = "finished" THEN [p |-> q, exc |-> OtherExc("StopIteration")]
       ELSE Parser_loop(q)

\* A drain that leaves the queue as it is.
Parser_events_keep(p) == [events |-> p.events_received, p |-> p, fresh |-> FALSE]

\* A drain that empties the list in place and returns that same list.
Parser_events_inplace(p) ==
    [events |-> <<>>, p |-> [p EXCEPT !.events_received = <<>>], fresh |-> FALSE]

\* Parser.events(): the list returned and the parser left behind.  fresh: the
\* parser's queue is a new list object, no longer the one returned.
Parser_events(p) ==
    [events |-> p.events_received, p |-> [p EXCEPT !.events_received = <<>>],
     fresh |-> TRUE]

(***************************************************************************)
(* class Parser300 (parser_300.py).  The generator's local variables        *)
(* (state, expected sizes, partial_msg) are fields of the parser record.    *)
(* The names it imports from .common are modelled after the event and error *)
(* surface the specification lists: events as the records above (a MSG      *)
(* event has no header field), ProtocolError() as a ProtocolError without   *)
(* byte and context.                                                        *)
(***************************************************************************)
PING_OP == <<80, 73, 78, 71, 13, 10>>
PONG_OP == <<80, 79, 78, 71, 13, 10>>
OK_OP == <<43, 79, 75, 13, 10>>
OK_OP_LEN == Len(OK_OP)
PING_OR_PONG_OP_LEN == Len(PING_OP)

AWAITING_CONTROL_LINE == 0
AWAITING_MSG_PAYLOAD == 1
AWAITING_HMSG_PAYLOAD == 2

OK_EVENT == Event("OK")
PING_EVENT == Event("PING")
PONG_EVENT == Event("PONG")
ErrorEvent300(message) == ErrorEvent("ERR", message)
MsgEvent300(sid, subject, reply_to, payload) ==
    [operation |-> "MSG", sid |-> sid, subject |-> subject,
     reply_to |-> reply_to, payload |-> payload]
HMsgEvent300(sid, subject, reply_to, payload, header) ==
    MsgEvent("HMSG", sid, subject, reply_to, payload, header)
ProtocolError300 == ProtocolError(-1, <<>>)
ParserClosedError == OtherExc("ParserClosedError")

\* str.lower(), on ASCII text
Lower(text) == [k \in 1..Len(text) |-> IF text[k] \in 65..90 THEN text[k] + 32 ELSE text[k]]

\* Parser300.__init__
Parser300_init ==
    [closed               |-> FALSE,
     data_received        |-> <<>>,
     events_received      |-> <<>>,
     expected_header_size |-> 0,
     expected_total_size  |-> 0,
     partial_msg          |-> None,
     state                |-> AWAITING_CONTROL_LINE,
     loop                 |-> "suspended"]

\* Parser300.close
Parser300_close(p) == [p EXCEPT !.closed = TRUE]

\* next_byte == 77: the MSG control line, and its payload when it is all there
Parser300_msg(p) ==
    LET buf  == p.data_received
        end  == Find(buf, CRLF)
        args == Split(Slice(buf, 4, end), Character_space)
        reply_to       == IF Len(args) = 4 THEN args[3] ELSE <<>>
        raw_total_size == IF Len(args) = 4 THEN args[4] ELSE args[3]
        sid      == PyInt(args[2])
        total    == PyInt(raw_total_size)
        subject  == Decode(args[1])
        reply    == Decode(reply_to)
        sized    == [p EXCEPT !.expected_total_size = total.val]
    IN IF end < 0 THEN Yield(p)
       ELSE IF Len(args) # 4 /\ Len(args) # 3 THEN RaiseExc(p, ProtocolError300)
       ELSE IF ~sid.ok \/ ~total.ok THEN RaiseExc(p, ProtocolError300)
       ELSE IF ~subject.ok \/ ~reply.ok THEN RaiseExc(sized, OtherExc("UnicodeDecodeError"))
       ELSE IF Len(SliceFrom(buf, end + 2)) >= total.val + CRLF_SIZE
       THEN Continue([sized EXCEPT
               !.events_received = Append(@,
                   MsgEvent300(sid.val, subject.text, reply.text,
                               Slice(buf, end + 2, end + 2 + total.val))),
               !.data_received = SliceFrom(buf, end + total.val + 5)])
       ELSE Yield([sized EXCEPT
               !.partial_msg = MsgEvent300(sid.val, subject.text, reply.text, <<>>),
               !.state = AWAITING_MSG_PAYLOAD,
               !.data_received = SliceFrom(buf, end + 2)])

\* next_byte == 72: the HMSG control line, and its payload when it is all there
Parser300_hmsg(p) ==
    LET buf  == p.data_received
        end  == Find(buf, CRLF)
        args == Split(Slice(buf, 5, end), Character_space)
        reply_to        == IF Len(args) = 5 THEN args[3] ELSE <<>>
        raw_header_size == IF Len(args) = 5 THEN args[4] ELSE args[3]
        raw_total_size  == IF Len(args) = 5 THEN args[5] ELSE args[4]
        header   == PyInt(raw_header_size)
        total    == PyInt(raw_total_size)
        sid      == PyInt(args[2])
        subject  == Decode(args[1])
        reply    == Decode(reply_to)
        hsized   == [p EXCEPT !.expected_header_size = header.val]
        sized    == [hsized EXCEPT !.expected_total_size = total.val]
    IN IF end < 0 THEN Yield(p)
       ELSE IF Len(args) # 5 /\ Len(args) # 4 THEN RaiseExc(p, ProtocolError300)
       ELSE IF ~header.ok THEN RaiseExc(p, ProtocolError300)
       ELSE IF ~total.ok THEN RaiseExc(hsized, ProtocolError300)
       ELSE IF ~sid.ok THEN RaiseExc(sized, ProtocolError300)
       ELSE IF Len(SliceFrom(buf, end + 2)) >= total.val + CRLF_SIZE
       THEN IF Slice(buf, end - 2 + header.val, end + 2 + header.val) # STOP_HEADER
            THEN RaiseExc(sized, ProtocolError300)
            ELSE IF ~subject.ok \/ ~reply.ok
            THEN RaiseExc(sized, OtherExc("UnicodeDecodeError"))
            ELSE Continue([sized EXCEPT
                    !.events_received = Append(@,
                        HMsgEvent300(sid.val, subject.text, reply.text,
                                     Slice(buf, end + 2 + header.val, end + 2 + total.val),
                                     Slice(buf, end + 2, end - 2 + header.val))),
                    !.data_received = SliceFrom(buf, end + total.val + 5)])
       ELSE IF ~subject.ok \/ ~reply.ok THEN RaiseExc(sized, OtherExc("UnicodeDecodeError"))
       ELSE Yield([sized EXCEPT
               !.partial_msg = HMsgEvent300(sid.val, subject.text, reply.text, <<>>, <<>>),
               !.state = AWAITING_HMSG_PAYLOAD,
               !.data_received = SliceFrom(buf, end + 2)])

\* next_byte == 45: the -ERR line
Parser300_err(p) ==
    LET buf == p.data_received
        end == Find(buf, CRLF)
        msg == Decode(Slice(buf, 5, end))
    IN IF end < 0 THEN Yield(p)
       ELSE IF ~msg.ok THEN RaiseExc(p, OtherExc("UnicodeDecodeError"))
       ELSE IF msg.text = <<>> THEN RaiseExc(p, OtherExc("IndexError"))
       ELSE IF msg.text[1] # 39 THEN RaiseExc(p, ProtocolError300)
       ELSE IF msg.text[Len(msg.text)] # 39 THEN RaiseExc(p, ProtocolError300)
       ELSE Continue([p EXCEPT
               !.events_received = Append(@, ErrorEvent300(Lower(Slice(msg.text, 1, -1)))),
               !.data_received = SliceFrom(buf, end + CRLF_SIZE)])

\* next_byte == 73, with the CRLF at index end: any exception of parse_info
\* becomes a ProtocolError, else its event is appended and end + 3 bytes go.
AppendInfo300(p, info, end) ==
    IF info.exc # NoExc THEN RaiseExc(p, ProtocolError300)
    ELSE Continue([p EXCEPT
            !.events_received = Append(@, info.val),
            !.data_received = SliceFrom(p.data_received, end + 3)])

\* One pass through the body of the while loop of Parser300.__parse__, entered
\* with a non-empty buffer.
Parser300_step(p) ==
    LET buf       == p.data_received
        next_byte == buf[1]
    IN
    IF p.state = AWAITING_CONTROL_LINE THEN
        CASE next_byte = 77 -> Parser300_msg(p)
          [] next_byte = 72 -> Parser300_hmsg(p)
          [] next_byte = 80 ->
                IF Len(buf) >= PING_OR_PONG_OP_LEN
                THEN LET rest == [p EXCEPT !.data_received = SliceFrom(buf, PING_OR_PONG_OP_LEN)]
                     IN IF SliceTo(buf, PING_OR_PONG_OP_LEN) = PING_OP
                        THEN Continue([rest EXCEPT !.events_received = Append(@, PING_EVENT)])
                        ELSE IF SliceTo(buf, PING_OR_PONG_OP_LEN) = PONG_OP
                        THEN Continue([rest EXCEPT !.events_received = Append(@, PONG_EVENT)])
                        ELSE RaiseExc(p, ProtocolError300)
                ELSE Yield(p)
          [] next_byte = 73 ->
                LET end == Find(buf, CRLF)
                IN IF end < 0 THEN Yield(p)
                   ELSE AppendInfo300(p, parse_info(Slice(buf, 5, end)), end)
          [] next_byte = 43 ->
                IF Len(buf) < 5 THEN Yield(p)
                ELSE IF SliceTo(buf, 5) # OK_OP THEN RaiseExc(p, ProtocolError300)
                ELSE Continue([p EXCEPT
                        !.data_received = SliceFrom(buf, OK_OP_LEN + 1),
                        !.events_received = Append(@, OK_EVENT)])
          [] next_byte = 45 -> Parser300_err(p)
          [] OTHER -> RaiseExc(p, ProtocolError300)
    ELSE IF p.state = AWAITING_HMSG_PAYLOAD THEN
        IF Len(buf) >= p.expected_total_size + CRLF_SIZE
        THEN IF Slice(buf, p.expected_header_size - 4, p.expected_header_size) # STOP_HEADER
             THEN RaiseExc(p, ProtocolError300)
             ELSE LET msg == [p.partial_msg EXCEPT
                                !.header = SliceTo(buf, p.expected_header_size - 4),
                                !.payload = Slice(buf, p.expected_header_size,
                                                  p.expected_total_size)]
                  IN Continue([p EXCEPT
                        !.partial_msg = msg,
                        !.data_received = SliceFrom(buf, p.expected_total_size + 3),
                        !.events_received = Append(@, msg),
                        !.state = AWAITING_CONTROL_LINE])
        ELSE Yield(p)
    ELSE
        IF Len(buf) >= p.expected_total_size + CRLF_SIZE
        THEN LET msg == [p.partial_msg EXCEPT
                           !.payload = SliceTo(buf, p.expected_total_size)]
             IN Continue([p EXCEPT
                   !.partial_msg = msg,
                   !.data_received = SliceFrom(buf, p.expected_total_size + 3),
                   !.events_received = Append(@, msg),
                   !.state = AWAITING_CONTROL_LINE])
        ELSE Yield(p)

\* The while loop of Parser300.__parse__, from its head to the next yield,
\* return or raise.  Leaving the loop (closed) ends the generator, and next()
\* raises StopIteration.
RECURSIVE Parser300_loop(_), Parser300_after(_)
Parser300_loop(p) ==
    IF p.closed THEN [p |-> [p EXCEPT !.loop = "finished"], exc |-> OtherExc("StopIteration")]
    ELSE IF p.data_received = <<>> THEN [p |-> p, exc |-> NoExc]
    ELSE Parser300_after(Parser300_step(p))

\* Where a pass r through the body leads: continue goes back to the head of
\* the loop, yield suspends the generator, raise ends it.
Parser300_after(r) ==
    CASE r.ctl = "continue" -> Parser300_loop(r.p)
      [] r.ctl = "yield" -> [p |-> r.p, exc |-> NoExc]
      [] OTHER -> [p |-> [r.p EXCEPT !.loop = "finished"], exc |-> r.exc]

\* self._data_received.extend(data); self.__loop__.__next__()
Parser300_next(p, data) ==
    LET q == [p EXCEPT !.data_received = @ \o data]
    IN IF q.loop = "finished" THEN [p |-> q, exc |-> OtherExc("StopIteration")]
       ELSE Parser300_loop(q)

\* except StopIteration: raise ParserClosedError()
Parser300_except(r) ==
    IF r.exc.type = "StopIteration" THEN [p |-> r.p, exc |-> ParserClosedError] ELSE r

\* A parse() that lets StopIteration through.
Parser300_parse_leak(p, data) == Parser300_next(p, data)

\* Parser300.parse(data): StopIteration becomes ParserClosedError.
Parser300_parse(p, data) == Parser300_except(Parser300_next(p, data))

\* Parser300.events_received()
Parser300_events_received(p) ==
    [events |-> p.events_received, p |-> [p EXCEPT !.events_received = <<>>]]

(***************************************************************************)
(* class Parser310 (parser_310.py).  The generator's local variables        *)
(* (cursor, state, expected sizes, partial_msg) are fields of the parser    *)
(* record.  The names it imports from .common are the ones parser.py        *)
(* defines.                                                                 *)
(***************************************************************************)

\* Parser310.__init__
Parser310_init ==
    [closed               |-> FALSE,
     data_received        |-> <<>>,
     events_received      |-> <<>>,
     cursor               |-> 0,
     expected_header_size |-> 0,
     expected_total_size  |-> 0,
     partial_msg          |-> None,
     state                |-> "OP_START",
     loop                 |-> "suspended"]

\* The cases "match next_byte: case accepted: state = nxt; cursor += 1; case _: raise".
Expect310(p, next_byte, accepted, nxt) ==
    IF next_byte \in accepted
    THEN Continue([p EXCEPT !.state = nxt, !.cursor = @ + 1])
    ELSE Raise(p, next_byte, p.data_received)

\* The cases that start an argument: state = nxt; drop the verb; cursor = 1.
StartArg310(p, nxt) ==
    Continue([p EXCEPT !.state = nxt,
                       !.data_received = SliceFrom(@, p.cursor),
                       !.cursor = 1])

\* The cases that end a line on CR or LF: drop the buffer through the cursor.
EndLine310(p, nxt) ==
    [p EXCEPT !.state = nxt,
              !.data_received = SliceFrom(@, p.cursor + 1),
              !.cursor = 0]

\* The MSG arguments raw[:end] of a control line ending at the CRLF at index end.
Parser310_msg_args(p, next_byte, raw, end) ==
    LET text   == Decode(raw)
        args   == Split(text.text, Character_space)
        nbargs == Len(args)
        reply_to       == IF nbargs = 4 THEN args[3] ELSE <<>>
        raw_total_size == IF nbargs = 4 THEN args[4] ELSE args[3]
        sid   == PyInt(args[2])
        total == PyInt(raw_total_size)
    IN IF ~text.ok THEN RaiseExc(p, OtherExc("UnicodeDecodeError"))
       ELSE IF nbargs # 4 /\ nbargs # 3 THEN Raise(p, next_byte, p.data_received)
       ELSE IF ~sid.ok \/ ~total.ok THEN Raise(p, next_byte, p.data_received)
       ELSE Continue([p EXCEPT
               !.expected_total_size = total.val,
               !.partial_msg = MsgEvent("MSG", sid.val, args[1], reply_to, <<>>, <<>>),
               !.state = "MSG_END",
               !.cursor = end + 1])

\* The HMSG arguments raw[:end] of a control line ending at the CRLF at index end.
Parser310_hmsg_args(p, next_byte, raw, end) ==
    LET text   == Decode(raw)
        args   == Split(text.text, Character_space)
        nbargs == Len(args)
        reply_to        == IF nbargs = 5 THEN args[3] ELSE <<>>
        raw_header_size == IF nbargs = 5 THEN args[4] ELSE args[3]
        raw_total_size  == IF nbargs = 5 THEN args[5] ELSE args[4]
        header == PyInt(raw_header_size)
        total  == PyInt(raw_total_size)
        sid    == PyInt(args[2])
    IN IF ~text.ok THEN RaiseExc(p, OtherExc("UnicodeDecodeError"))
       ELSE IF nbargs # 5 /\ nbargs # 4 THEN Raise(p, next_byte, p.data_received)
       ELSE IF ~header.ok THEN Raise(p, next_byte, p.data_received)
       ELSE IF ~total.ok
            THEN Raise([p EXCEPT !.expected_header_size = header.val],
                       next_byte, p.data_received)
       ELSE IF ~sid.ok
            THEN Raise([p EXCEPT !.expected_header_size = header.val,
                                 !.expected_total_size = total.val],
                       next_byte, p.data_received)
       ELSE Continue([p EXCEPT
               !.expected_header_size = header.val,
               !.expected_total_size = total.val,
               !.partial_msg = MsgEvent("HMSG", sid.val, args[1], reply_to, <<>>, <<>>),
               !.state = "HMSG_END",
               !.cursor = end + 1])

\* case State.HMSG_PAYLOAD
Parser310_hmsg_payload(p, next_byte) ==
    LET buf == p.data_received IN
    IF Len(buf) >= p.expected_total_size + CRLF_SIZE
    THEN LET msg    == p.partial_msg
             header == SliceTo(buf, p.expected_header_size)
         IN IF Slice(header, -4, Len(header)) # STOP_HEADER
            THEN Raise([p EXCEPT !.partial_msg = None], next_byte, header)
            ELSE Continue([p EXCEPT
                    !.partial_msg = None,
                    !.data_received = SliceFrom(buf, p.expected_total_size + CRLF_SIZE + 1),
                    !.events_received = Append(@,
                        [msg EXCEPT
                           !.header = SliceTo(header, -4),
                           !.payload = Slice(buf, p.expected_header_size,
                                             p.expected_total_size)]),
                    !.state = "OP_START",
                    !.cursor = 0])
    ELSE Yield(p)

\* case State.MSG_PAYLOAD
Parser310_msg_payload(p) ==
    LET buf == p.data_received IN
    IF Len(buf) >= p.expected_total_size + CRLF_SIZE
    THEN LET msg == p.partial_msg
         IN Continue([p EXCEPT
               !.partial_msg = None,
               !.data_received = SliceFrom(buf, p.expected_total_size + CRLF_SIZE + 1),
               !.cursor = 0,
               !.events_received = Append(@,
                   [msg EXCEPT !.payload = SliceTo(buf, p.expected_total_size)]),
               !.state = "OP_START"])
    ELSE Yield(p)

\* case State.INFO_ARG
Parser310_info_arg(p) ==
    LET buf == p.data_received
        end == Find(buf, CRLF)
    IN IF end >= 0
       THEN AppendInfo([p EXCEPT !.data_received = SliceFrom(buf, end + CRLF_SIZE + 1),
                                 !.cursor = 0,
                                 !.state = "OP_START"],
                       parse_info(SliceTo(buf, end)))
       ELSE Yield(p)

\* One pass through the body of the while loop of Parser310.__parse__, entered
\* with a non-empty buffer; reading the byte under a cursor that is past the
\* end of the buffer raises IndexError.
Parser310_step(p) ==
    LET buf       == p.data_received
        cursor    == p.cursor
        next_byte == buf[cursor + 1]
        state     == p.state
        end       == Find(buf, CRLF)
    IN
    IF cursor >= Len(buf) THEN RaiseExc(p, OtherExc("IndexError")) ELSE
    CASE state = "OP_START" ->
            IF next_byte \in {Character_M, Character_m}
            THEN IF end >= 0
                 THEN Parser310_msg_args(p, next_byte, Slice(buf, cursor + 4, end), end)
                 ELSE Continue([p EXCEPT !.state = "OP_M", !.cursor = @ + 1])
            ELSE IF next_byte \in {Character_H, Character_h}
            THEN IF end >= 0
                 THEN Parser310_hmsg_args(p, next_byte, Slice(buf, cursor + 5, end), end)
                 ELSE Continue([p EXCEPT !.state = "OP_H", !.cursor = @ + 1])
            ELSE IF next_byte \in {Character_P, Character_p}
            THEN Continue([p EXCEPT !.state = "OP_P", !.cursor = @ + 1])
            ELSE IF next_byte \in {Character_I, Character_i}
            THEN Continue([p EXCEPT !.state = "OP_I", !.cursor = @ + 1])
            ELSE IF next_byte = Character_plus
            THEN Continue([p EXCEPT !.state = "OP_PLUS", !.cursor = @ + 1])
            ELSE IF next_byte = Character_minus
            THEN Continue([p EXCEPT !.state = "OP_MINUS", !.cursor = @ + 1])
            ELSE Raise(p, next_byte, buf)
      [] state = "OP_H" -> Expect310(p, next_byte, {Character_M, Character_m}, "OP_HM")
      [] state = "OP_HM" -> Expect310(p, next_byte, {Character_S, Character_s}, "OP_HMS")
      [] state = "OP_HMS" -> Expect310(p, next_byte, {Character_G, Character_g}, "OP_HMSG")
      [] state = "OP_HMSG" -> Expect310(p, next_byte, {Character_space}, "OP_HMSG_SPC")
      [] state = "OP_HMSG_SPC" ->
            IF next_byte \in {Character_carriage_return, Character_newline, Character_space}
            THEN Raise(p, next_byte, buf)
            ELSE StartArg310(p, "HMSG_ARG")
      [] state = "HMSG_ARG" ->
            IF end >= 0 THEN Parser310_hmsg_args(p, next_byte, SliceTo(buf, end), end)
            ELSE Yield(p)
      [] state = "HMSG_END" ->
            IF next_byte = Character_newline THEN Continue(EndLine310(p, "HMSG_PAYLOAD"))
            ELSE Raise(p, next_byte, buf)
      [] state = "HMSG_PAYLOAD" -> Parser310_hmsg_payload(p, next_byte)
      [] state = "OP_M" -> Expect310(p, next_byte, {Character_S, Character_s}, "OP_MS")
      [] state = "OP_MS" -> Expect310(p, next_byte, {Character_G, Character_g}, "OP_MSG")
      [] state = "OP_MSG" -> Expect310(p, next_byte, {Character_space}, "OP_MSG_SPC")
      [] state = "OP_MSG_SPC" ->
            IF next_byte \in {Character_carriage_return, Character_newline, Character_space}
            THEN Raise(p, next_byte, buf)
            ELSE StartArg310(p, "MSG_ARG")
      [] state = "MSG_ARG" ->
            IF end >= 0 THEN Parser310_msg_args(p, next_byte, SliceTo(buf, end), end)
            ELSE Yield(p)
      [] state = "MSG_END" ->
            IF next_byte = Character_newline THEN Continue(EndLine310(p, "MSG_PAYLOAD"))
            ELSE Raise(p, next_byte, buf)
      [] state = "MSG_PAYLOAD" -> Parser310_msg_payload(p)
      [] state = "OP_P" ->
            IF next_byte \in {Character_I, Character_i}
            THEN Continue([p EXCEPT !.state = "OP_PI", !.cursor = @ + 1])
            ELSE IF next_byte \in {Character_O, Character_o}
            THEN Continue([p EXCEPT !.state = "OP_PO", !.cursor = @ + 1])
            ELSE Raise(p, next_byte, buf)
      [] state = "OP_PI" -> Expect310(p, next_byte, {Character_N, Character_n}, "OP_PIN")
      [] state = "OP_PIN" -> Expect310(p, next_byte, {Character_G, Character_g}, "OP_PING")
      [] state = "OP_PING" ->
            IF next_byte = Character_carriage_return
            THEN Continue([EndLine310(p, "OP_END") EXCEPT
                              !.events_received = Append(@, Event("PING"))])
            ELSE Raise(p, next_byte, buf)
      [] state = "OP_PO" -> Expect310(p, next_byte, {Character_N, Character_n}, "OP_PON")
      [] state = "OP_PON" -> Expect310(p, next_byte, {Character_G, Character_g}, "OP_PONG")
      [] state = "OP_PONG" ->
            IF next_byte = Character_carriage_return
            THEN Continue([EndLine310(p, "OP_END") EXCEPT
                              !.events_received = Append(@, Event("PONG"))])
            ELSE Raise(p, next_byte, buf)
      [] state = "OP_I" -> Expect310(p, next_byte, {Character_N, Character_n}, "OP_IN")
      [] state = "OP_IN" -> Expect310(p, next_byte, {Character_F, Character_f}, "OP_INF")
      [] state = "OP_INF" -> Expect310(p, next_byte, {Character_O, Character_o}, "OP_INFO")
      [] state = "OP_INFO" -> Expect310(p, next_byte, {Character_space}, "OP_INFO_SPC")
      [] state = "OP_INFO_SPC" ->
            IF next_byte = Character_left_json_bracket THEN StartArg310(p, "INFO_ARG")
            ELSE Raise(p, next_byte, buf)
      [] state = "INFO_ARG" -> Parser310_info_arg(p)
      [] state = "OP_PLUS" -> Expect310(p, next_byte, {Character_O, Character_o}, "OP_PLUS_O")
      [] state = "OP_PLUS_O" -> Expect310(p, next_byte, {Character_K, Character_k}, "OP_PLUS_OK")
      [] state = "OP_PLUS_OK" ->
            IF next_byte = Character_carriage_return
            THEN Continue([EndLine310(p, "OP_END") EXCEPT
                              !.events_received = Append(@, Event("OK"))])
            ELSE Raise(p, next_byte, buf)
      [] state = "OP_MINUS" -> Expect310(p, next_byte, {Character_E, Character_e}, "OP_MINUS_E")
      [] state = "OP_MINUS_E" -> Expect310(p, next_byte, {Character_R, Character_r}, "OP_MINUS_ER")
      [] state = "OP_MINUS_ER" ->
            Expect310(p, next_byte, {Character_R, Character_r}, "OP_MINUS_ERR")
      [] state = "OP_MINUS_ERR" -> Expect310(p, next_byte, {Character_space}, "OP_MINUS_ERR_SPC")
      [] state = "OP_MINUS_ERR_SPC" ->
            IF next_byte \in {Character_carriage_return, Character_newline}
            THEN Raise(p, next_byte, buf)
            ELSE StartArg310(p, "MINUS_ERR_ARG")
      [] state = "MINUS_ERR_ARG" ->
            IF next_byte = Character_carriage_return
            THEN LET msg == Decode(SliceTo(buf, cursor))
                 IN IF ~msg.ok THEN RaiseExc(p, OtherExc("UnicodeDecodeError"))
                    ELSE Continue([EndLine310(p, "OP_END") EXCEPT
                            !.events_received = Append(@, ErrorEvent("ERR", msg.text))])
            ELSE IF next_byte = Character_newline THEN Raise(p, next_byte, buf)
            ELSE Continue([p EXCEPT !.cursor = @ + 1])
      [] state = "OP_END" ->
            IF next_byte = Character_newline THEN Continue(EndLine310(p, "OP_START"))
            ELSE Raise(p, next_byte, buf)
      [] OTHER -> Continue(p)

\* The while loop of Parser310.__parse__, from its head to the next yield,
\* return or raise.
RECURSIVE Parser310_loop(_), Parser310_after(_)
Parser310_loop(p) ==
    IF p.closed THEN [p |-> [p EXCEPT !.loop = "finished"], exc |-> OtherExc("StopIteration")]
    ELSE IF p.data_received = <<>> THEN [p |-> p, exc |-> NoExc]
    ELSE Parser310_after(Parser310_step(p))

\* Where a pass r through the body leads: continue goes back to the head of
\* the loop, yield suspends the generator, raise ends it.
Parser310_after(r) ==
    CASE r.ctl = "continue" -> Parser310_loop(r.p)
      [] r.ctl = "yield" -> [p |-> r.p, exc |-> NoExc]
      [] OTHER -> [p |-> [r.p EXCEPT !.loop = "finished"], exc |-> r.exc]

\* Parser310.parse(data)
Parser310_parse(p, data) ==
    LET q == [p EXCEPT !.data_received = @ \o data]
    IN IF q.loop = "finished" THEN [p |-> q, exc |-> OtherExc("StopIteration")]
       ELSE Parser310_loop(q)

\* Parser310.events_received()
Parser310_events_received(p) ==
    [events |-> p.events_received, p |-> [p EXCEPT !.events_received = <<>>]]

(***************************************************************************)
(* The byte streams fed to the parsers: sequences of frames.  A frame is    *)
(* described by its bytes, by whether it is well formed under the wire      *)
(* grammar (wf), and, when it is, by the event the grammar assigns to it    *)
(* (ev); an HMSG frame also records its advertised sizes and the bytes that *)
(* follow its control line.                                                 *)
(***************************************************************************)
MaxFollow == 1
MaxChunk == 3

Frame(kind, bytes, wf, ev) ==
    [kind |-> kind, bytes |-> bytes, wf |-> wf, ev |-> ev,
     header_size |-> 0, total_size |-> 0, region |-> <<>>]

\* The decimal text of a natural number.
RECURSIVE Dec(_)
Dec(k) == IF k < 10 THEN <<48 + k>> ELSE Dec(k \div 10) \o <<48 + (k % 10)>>

SP == <<Character_space>>

V_MSG == <<Character_M, Character_S, Character_G>>
V_HMSG == <<Character_H, Character_M, Character_S, Character_G>>
V_PING == <<Character_P, Character_I, Character_N, Character_G>>
V_PONG == <<Character_P, Character_O, Character_N, Character_G>>
V_INFO == <<Character_I, Character_N, Character_F, Character_O>>
V_OK == <<Character_plus, Character_O, Character_K>>
V_ERR == <<Character_minus, Character_E, Character_R, Character_R>>

\* verb CRLF
PingFrame(verb) == Frame("PING", verb \o CRLF, TRUE, Event("PING"))
PongFrame(verb) == Frame("PONG", verb \o CRLF, TRUE, Event("PONG"))
OkFrame(verb) == Frame("OK", verb \o CRLF, TRUE, Event("OK"))

\* verb SP err-text CRLF
ErrFrame(verb, text) ==
    Frame("ERR", verb \o SP \o text \o CRLF, TRUE, ErrorEvent("ERR", text))

\* verb SP subject SP sid [SP reply] SP total-size CRLF payload CRLF
MsgFrame(verb, subject, sid, reply, payload) ==
    Frame("MSG",
          verb \o SP \o subject \o SP \o Dec(sid)
               \o (IF reply = <<>> THEN <<>> ELSE SP \o reply)
               \o SP \o Dec(Len(payload)) \o CRLF \o payload \o CRLF,
          TRUE,
          MsgEvent("MSG", sid, subject, reply, payload, <<>>))

\* verb SP subject SP sid [SP reply] SP header-size SP total-size CRLF
\* header-block CRLF CRLF payload CRLF
HmsgFrame(verb, subject, sid, reply, header, payload) ==
    LET region == header \o STOP_HEADER \o payload
    IN [Frame("HMSG",
              verb \o SP \o subject \o SP \o Dec(sid)
                   \o (IF reply = <<>> THEN <<>> ELSE SP \o reply)
                   \o SP \o Dec(Len(header) + 4) \o SP \o Dec(Len(region))
                   \o CRLF \o region \o CRLF,
              TRUE,
              MsgEvent("HMSG", sid, subject, reply, payload, header))
        EXCEPT !.header_size = Len(header) + 4,
               !.total_size = Len(region),
               !.region = region]

\* An HMSG frame whose sizes are given as they stand on the wire, followed by
\* any bytes: well formed only if 4 <= header_size <= total_size, the header
\* block ends with CRLF CRLF and the region is followed by CRLF.
RawHmsgFrame(header_size, total_size, after) ==
    LET region == SliceTo(after, total_size)
        wf     == /\ 4 <= header_size
                  /\ header_size <= total_size
                  /\ Len(after) = total_size + 2
                  /\ Slice(after, header_size - 4, header_size) = STOP_HEADER
                  /\ SliceFrom(after, total_size) = CRLF
    IN [Frame("HMSG",
              V_HMSG \o SP \o <<115>> \o SP \o <<49>> \o SP \o Dec(header_size)
                     \o SP \o Dec(total_size) \o CRLF \o after,
              wf,
              IF wf THEN MsgEvent("HMSG", 1, <<115>>, <<>>,
                                  Slice(after, header_size, total_size),
                                  SliceTo(after, header_size - 4))
              ELSE None)
        EXCEPT !.header_size = header_size,
               !.total_size = total_size,
               !.region = region]

\* The JSON text of a flat object given as its <<key, value>> members.
JsonDumpValue(val) ==
    CASE val.t = "str" -> <<34>> \o val.v \o <<34>>
      [] val.t = "int" -> Dec(val.v[1])
      [] val.t = "bool" -> IF val.v[1] = 1 THEN <<116, 114, 117, 101>>
                           ELSE <<102, 97, 108, 115, 101>>
      [] OTHER -> <<110, 117, 108, 108>>

RECURSIVE JsonDumpMembers(_)
JsonDumpMembers(members) ==
    IF members = <<>> THEN <<>>
    ELSE <<34>> \o members[1][1] \o <<34, 58>> \o JsonDumpValue(members[1][2])
         \o (IF Len(members) > 1 THEN <<44>> ELSE <<>>)
         \o JsonDumpMembers(Tail(members))

JsonDump(members) == <<Character_left_json_bracket>> \o JsonDumpMembers(members) \o <<125>>

\* verb SP json-body CRLF, for the object with the given members; version is
\* the Version that the text of its "version" member stands for.
InfoFrame(verb, members, version) ==
    LET wf == \A k \in 1..Len(RequiredKeys) : HasKey(members, RequiredKeys[k])
    IN Frame("INFO", verb \o SP \o JsonDump(members) \o CRLF, wf,
             IF wf THEN InfoEvent(members, version) ELSE None)

\* Bytes that are no frame of the grammar.
BadFrame(bytes) == Frame("BAD", bytes, FALSE, None)


(***************************************************************************)
(* The frames of the model.                                                *)
(***************************************************************************)
Subject == <<65, 46, 98>>                  \* A.b
Reply == <<82, 112>>                       \* Rp
ErrText == <<39, 65, 32, 98, 39>>          \* 'A b'

InfoMembers ==
    <<<<K_server_id, JsonStr(<<97>>)>>, <<K_server_name, JsonStr(<<98>>)>>,
      <<K_version, JsonStr(<<50, 46, 49, 48, 46, 52>>)>>,       \* 2.10.4
      <<K_go, JsonStr(<<103>>)>>, <<K_host, JsonStr(<<104>>)>>,
      <<K_port, JsonInt(4222)>>, <<K_headers, JsonBool(TRUE)>>,
      <<K_proto, JsonInt(1)>>, <<K_ldm, JsonBool(FALSE)>>>>

InfoVersion == Version(2, 10, 4, <<>>)

WellFormedFrames ==
    { PingFrame(V_PING), PongFrame(V_PONG), OkFrame(V_OK),
      ErrFrame(V_ERR, ErrText),
      \* MSG A.b 7 3 / xyz
      MsgFrame(V_MSG, Subject, 7, <<>>, <<120, 121, 122>>),
      \* MSG A.b 12 Rp 4 / x CR LF y
      MsgFrame(V_MSG, Subject, 12, Reply, <<120, 13, 10, 121>>),
      \* MSG A.b 7 2 / CR LF
      MsgFrame(V_MSG, Subject, 7, <<>>, CRLF),
      \* MSG A.b 0 0 /
      MsgFrame(V_MSG, Subject, 0, <<>>, <<>>),
      \* HMSG A.b 9 6 8 / k:v CR LF CR LF hi   (header "k:", payload "hi")
      HmsgFrame(V_HMSG, Subject, 9, <<>>, <<107, 58>>, <<104, 105>>),
      \* HMSG A.b 9 Rp 4 6 / CR LF CR LF CR LF  (empty header, payload CR LF)
      HmsgFrame(V_HMSG, Subject, 9, Reply, <<>>, CRLF),
      \* HMSG A.b 3 5 5 / h CR LF CR LF   (empty payload)
      HmsgFrame(V_HMSG, Subject, 3, <<>>, <<104>>, <<>>),
      InfoFrame(V_INFO, InfoMembers, InfoVersion) }

MalformedFrames ==
    { BadFrame(<<88, 89, 90>> \o CRLF),                           \* XYZ
      BadFrame(<<80, 73, 78, 88>> \o CRLF),                       \* PINX
      BadFrame(V_PING \o <<13, 88>>),                             \* PING CR X
      BadFrame(V_OK \o <<13, 88>>),                               \* +OK CR X
      BadFrame(V_ERR \o SP \o <<97, 10, 98>> \o CRLF),            \* -ERR a LF b
      BadFrame(V_ERR \o SP \o CRLF),                              \* -ERR (no text)
      \* MSG A.b 7  (too few tokens)
      BadFrame(V_MSG \o SP \o Subject \o SP \o <<55>> \o CRLF),
      \* MSG A.b x 3 / abc  (sid not a number)
      BadFrame(V_MSG \o SP \o Subject \o SP \o <<120, 32, 51>> \o CRLF
                     \o <<97, 98, 99>> \o CRLF),
      \* MSG A.b 1 -1 / ab  (negative size)
      BadFrame(V_MSG \o SP \o Subject \o SP \o <<49, 32, 45, 49>> \o CRLF
                     \o <<97, 98>> \o CRLF),
      \* MSG A.b 1 2 / ab XY  (payload not followed by CRLF)
      BadFrame(V_MSG \o SP \o Subject \o SP \o <<49, 32, 50>> \o CRLF
                     \o <<97, 98, 88, 89>>),
      \* HMSG s 1 4 6 / xxxxyy CR LF  (header block not closed by CRLF CRLF)
      RawHmsgFrame(4, 6, <<120, 120, 120, 120, 121, 121>> \o CRLF),
      \* HMSG s 1 7 4 / ab CR LF CR LF  (header_size > total_size)
      RawHmsgFrame(7, 4, <<97, 98>> \o STOP_HEADER),
      \* HMSG s 1 3 5 / a CR LF CR LF  (header_size < 4)
      RawHmsgFrame(3, 5, <<97>> \o STOP_HEADER \o CRLF),
      \* INFO {}  (required members missing)
      InfoFrame(V_INFO, <<>>, InfoVersion),
      \* INFO {"go"  (no JSON)
      BadFrame(V_INFO \o SP \o <<123, 34, 103, 111, 34>> \o CRLF),
      \* INFO x
      BadFrame(V_INFO \o SP \o <<120>> \o CRLF) }

Frames == WellFormedFrames \cup MalformedFrames

\* The frames that may come before and after the frame under test.
Followers ==
    { PingFrame(V_PING),
      \* MSG s 1 2 / hi
      MsgFrame(V_MSG, <<115>>, 1, <<>>, <<104, 105>>) }

FollowerSeqs(len) == UNION {[1..k -> Followers] : k \in 0..len}

\* A frame of Frames with at most MaxFollow followers around it.
Streams ==
    { fs \in { pre \o <<x>> \o post :
                 x \in Frames,
                 pre \in FollowerSeqs(MaxFollow),
                 post \in FollowerSeqs(MaxFollow) } :
        Len(fs) <= MaxFollow + 1 }

\* The bytes of a sequence of frames.
RECURSIVE Bytes(_)
Bytes(fs) == IF fs = <<>> THEN <<>> ELSE Head(fs).bytes \o Bytes(Tail(fs))

(***************************************************************************)
(* The state: a caller feeds the bytes of a stream to one parser, chunk by  *)
(* chunk, and drains its events in between.                                 *)
(***************************************************************************)
VARIABLES
    frames,         \* the frames of the stream
    impl,           \* the class of the parser: "Parser", "Parser300", "Parser310"
    parser,         \* the parser object
    pos,            \* how many bytes of the stream parse() has been given
    result,         \* the exception of the latest parse() call (NoExc: it returned)
    first_failure,  \* the exception of the first parse() call that raised
    retried,        \* parse() has been called again after a call that raised
    delivered,      \* the concatenation of the lists events() has returned
    returned,       \* the list the latest events() call returned
    lastop          \* the latest call: "init", "parse", "events", "close"

vars == <<frames, impl, parser, pos, result, first_failure, retried,
          delivered, returned, lastop>>

stream == Bytes(frames)

\* The constructor of each class.
NewParser(class) ==
    CASE class = "Parser" -> Parser_init(0)
      [] class = "Parser300" -> Parser300_init
      [] class = "Parser310" -> Parser310_init

InitFor(streams, impls) ==
    /\ frames \in streams
    /\ impl \in impls
    /\ parser = NewParser(impl)
    /\ pos = 0
    /\ result = NoExc
    /\ first_failure = NoExc
    /\ retried = FALSE
    /\ delivered = <<>>
    /\ returned = <<>>
    /\ lastop = "init"

\* The sizes of the next chunk: up to MaxChunk bytes, or all that is left.
ChunkSizes == {k \in 0..(Len(stream) - pos) : k <= MaxChunk \/ k = Len(stream) - pos}

\* The caller's bookkeeping around a parse() call with outcome r on k more bytes.
Called(r, k) ==
    /\ parser' = r.p
    /\ result' = r.exc
    /\ pos' = pos + k
    /\ first_failure' = IF first_failure = NoExc THEN r.exc ELSE first_failure
    /\ retried' = (retried \/ first_failure # NoExc)
    /\ lastop' = "parse"
    /\ UNCHANGED <<frames, impl, delivered, returned>>

\* The caller's bookkeeping around a drain with outcome r.
Drained(r) ==
    /\ parser' = r.p
    /\ returned' = r.events
    /\ delivered' = delivered \o r.events
    /\ lastop' = "events"
    /\ UNCHANGED <<frames, impl, pos, result, first_failure, retried>>

\* parser.parse(chunk) on a Parser
ParserParse(k) ==
    /\ impl = "Parser"
    /\ Called(Parser_parse(parser, SubSeq(stream, pos + 1, pos + k)), k)

\* parser.events() on a Parser
ParserEvents ==
    /\ impl = "Parser"
    /\ Drained(Parser_events(parser))

\* parser.parse(chunk) on a Parser300
Parser300Parse(k) ==
    /\ impl = "Parser300"
    /\ Called(Parser300_parse(parser, SubSeq(stream, pos + 1, pos + k)), k)

\* parser.events_received() on a Parser300
Parser300Events ==
    /\ impl = "Parser300"
    /\ Drained(Parser300_events_received(parser))

\* parser.close() on a Parser300
Parser300Close ==
    /\ impl = "Parser300"
    /\ parser' = Parser300_close(parser)
    /\ lastop' = "close"
    /\ UNCHANGED <<frames, impl, pos, result, first_failure, retried, delivered, returned>>

\* parser.parse(chunk) on a Parser310
Parser310Parse(k) ==
    /\ impl = "Parser310"
    /\ Called(Parser310_parse(parser, SubSeq(stream, pos + 1, pos + k)), k)

\* parser.events_received() on a Parser310
Parser310Events ==
    /\ impl = "Parser310"
    /\ Drained(Parser310_events_received(parser))


(***************************************************************************)
(* Spec: one Parser (parser.py) fed any stream of Streams.                  *)
(***************************************************************************)
Init == InitFor(Streams, {"Parser"})

Next ==
    \/ \E k \in ChunkSizes : ParserParse(k)
    \/ ParserEvents

Spec == Init /\ [][Next]_vars

(***************************************************************************)
(* SpecAll: a parser of any of the three classes fed any stream of Streams. *)
(***************************************************************************)
InitAll == InitFor(Streams, {"Parser", "Parser300", "Parser310"})

NextAll ==
    \/ \E k \in ChunkSizes : ParserParse(k)
    \/ ParserEvents
    \/ \E k \in ChunkSizes : Parser300Parse(k)
    \/ Parser300Events
    \/ Parser300Close
    \/ \E k \in ChunkSizes : Parser310Parse(k)
    \/ Parser310Events

SpecAll == InitAll /\ [][NextAll]_vars

(***************************************************************************)
(* SpecCase: one Parser fed one frame whose verb is written in any mix of   *)
(* upper and lower case.                                                    *)
(***************************************************************************)
\* Every way of writing the letters of verb in upper or lower case.
CaseMixes(verb) ==
    { [k \in 1..Len(verb) |->
          IF low[k] /\ verb[k] \in 65..90 THEN verb[k] + 32 ELSE verb[k]] :
        low \in [1..Len(verb) -> BOOLEAN] }

CaseFrames ==
    UNION {
      {PingFrame(v) : v \in CaseMixes(V_PING)},
      {PongFrame(v) : v \in CaseMixes(V_PONG)},
      {OkFrame(v) : v \in CaseMixes(V_OK)},
      {ErrFrame(v, ErrText) : v \in CaseMixes(V_ERR)},
      \* MSG A.b 12 Rp 2 / xY
      {MsgFrame(v, Subject, 12, Reply, <<120, 89>>) : v \in CaseMixes(V_MSG)},
      \* HMSG A.b 9 Rp 6 8 / K:  CR LF CR LF hI
      {HmsgFrame(v, Subject, 9, Reply, <<75, 58>>, <<104, 73>>) : v \in CaseMixes(V_HMSG)},
      {InfoFrame(v, InfoMembers, InfoVersion) : v \in CaseMixes(V_INFO)} }

CaseStreams == {<<x>> : x \in CaseFrames}

InitCase == InitFor(CaseStreams, {"Parser"})

SpecCase == InitCase /\ [][Next]_vars

(***************************************************************************)
(* What the caller has seen, and what the stream holds.                     *)
(***************************************************************************)
\* Every event produced so far: those drained, then those still queued.
Produced == delivered \o parser.events_received

\* The offset in the stream at which frame i ends.
End(i) == Len(Bytes(SubSeq(frames, 1, i)))

\* The number of well-formed frames the stream starts with.
GoodPrefixLen ==
    CHOOSE g \in 0..Len(frames) :
        /\ \A i \in 1..g : frames[i].wf
        /\ g = Len(frames) \/ ~frames[g + 1].wf

\* The number of those frames whose last byte has been given to parse().
CompletedGood == Cardinality({i \in 1..GoodPrefixLen : End(i) <= pos})

\* An event without the fields derived by parse_version.
Key(e) == IF e.operation = "INFO" THEN [e EXCEPT !.version = <<>>] ELSE e

Keys(es) == [i \in 1..Len(es) |-> Key(es[i])]

\* The events of the well-formed frames the stream starts with.
GoodEvents == [i \in 1..GoodPrefixLen |-> Key(frames[i].ev)]

IsPrefix(s, t) == Len(s) <= Len(t) /\ SubSeq(t, 1, Len(s)) = s

\* The events of a fresh Parser given all the bytes in one parse() call.
OneShot(bytes) == Parser_parse(Parser_init(0), bytes).p.events_received

(***************************************************************************)
(* Claims.                                                                 *)
(***************************************************************************)

\* C1: once a Parser has been given a whole stream, in any chunks, the events
\* it has produced are those a fresh Parser produces when given the stream in
\* one parse() call.
ChunkInvariance ==
    (impl = "Parser" /\ pos = Len(stream)) => Produced = OneShot(stream)

\* C2: what events() has returned from a Parser so far lists one event per
\* completed frame, in the order of the frames: never more events than frames
\* completed, each event that of the frame at its place, and none missing
\* right after a drain.
WireOrder ==
    impl = "Parser" =>
        /\ Len(delivered) <= CompletedGood
        /\ \A i \in 1..Len(delivered) : Key(delivered[i]) = Key(frames[i].ev)
        /\ lastop = "events" => Len(delivered) = CompletedGood

\* C3: a drain of a Parser, Parser300 or Parser310 returns the whole queue in
\* order and leaves it empty, and a drain that follows a drain returns the
\* empty list.
DrainReturnsQueue ==
    [][ lastop' = "events" =>
            /\ returned' = parser.events_received
            /\ parser'.events_received = <<>>
            /\ delivered' = delivered \o parser.events_received
            /\ lastop = "events" => returned' = <<>> ]_vars

DrainedTwice ==
    /\ impl = "Parser300"
    /\ lastop = "events"
    /\ returned = <<>>
    /\ delivered # <<>>
    /\ parser.events_received = <<>>

\* C4: after a parse() call of a Parser or Parser300 has raised ProtocolError,
\* every later parse() call raises too.
ErrorLatched ==
    ( /\ impl \in {"Parser", "Parser300"}
      /\ first_failure.type = "ProtocolError"
      /\ retried ) => result # NoExc

\* A Parser that failed on the first frame has been given a well-formed frame
\* afterwards, and an empty chunk after that.
RetriedAfterError ==
    /\ impl = "Parser"
    /\ first_failure.type = "ProtocolError"
    /\ retried
    /\ lastop = "parse"
    /\ Len(frames) = 2 /\ ~frames[1].wf /\ frames[2].wf
    /\ pos = Len(stream)
    /\ result = OtherExc("StopIteration")

\* C5: after a parse() call of a Parser has raised, the events of the frames
\* before the failing one are still there: they lead the events produced, and
\* the events delivered once events() has been called.
EventsSurviveError ==
    (impl = "Parser" /\ first_failure # NoExc) =>
        /\ IsPrefix(GoodEvents, Keys(Produced))
        /\ lastop = "events" => IsPrefix(GoodEvents, Keys(delivered))

\* The first drain comes after the error and returns the event of the frame
\* before the failing one.
DrainedAfterError ==
    /\ impl = "Parser"
    /\ first_failure.type = "ProtocolError"
    /\ GoodPrefixLen = 1 /\ Len(frames) = 2
    /\ lastop = "events"
    /\ returned = <<frames[1].ev>>
    /\ delivered = returned

\* C6: the first parse() call of a Parser that fails raises ProtocolError.
FirstFailureIsProtocolError ==
    impl = "Parser" => first_failure.type \in {"None", "ProtocolError"}

\* C7: close() sets the flag of a Parser300 and changes nothing when it is
\* set already, and every parse() call on a closed Parser300 raises
\* ParserClosedError.
ClosedParserRaises ==
    impl = "Parser300" =>
        /\ lastop = "close" => parser.closed
        /\ parser.closed => Parser300_close(parser) = parser
        /\ (parser.closed /\ lastop = "parse") => result = ParserClosedError

\* A Parser300 closed while it awaited a payload has been called twice since.
ClosedAwaitingPayload ==
    /\ impl = "Parser300"
    /\ parser.closed
    /\ parser.state = AWAITING_MSG_PAYLOAD
    /\ lastop = "parse"
    /\ first_failure = ParserClosedError
    /\ retried
    /\ result = ParserClosedError

\* A MSG frame whose payload holds CR LF.
HasCRLF(i) == frames[i].kind = "MSG" /\ Find(frames[i].ev.payload, CRLF) >= 0

\* The payload bytes of MSG frame i as they stand in the stream: the
\* total_size bytes before its closing CRLF.
InputPayload(i) ==
    SubSeq(stream, End(i) - CRLF_SIZE - Len(frames[i].ev.payload) + 1, End(i) - CRLF_SIZE)

\* C8: once a Parser has been given a well-formed MSG frame whose payload
\* holds CR LF, the payload of its event is the payload bytes of the input,
\* and once it has been given the frame after it, that frame's event follows
\* with the right fields.
BinarySafety ==
    impl = "Parser" =>
        \A i \in 1..GoodPrefixLen :
            (HasCRLF(i) /\ End(i) <= pos) =>
                /\ Len(Produced) >= i
                /\ Produced[i].operation = "MSG"
                /\ Produced[i].payload = InputPayload(i)
                /\ Produced[i] = frames[i].ev
                /\ (i + 1 <= GoodPrefixLen /\ End(i + 1) <= pos) =>
                       /\ Len(Produced) >= i + 1
                       /\ Produced[i + 1] = frames[i + 1].ev

\* Both frames have been given, the first a MSG whose payload holds CR LF.
BinaryPayloadThenFrame ==
    /\ impl = "Parser"
    /\ Len(frames) = 2 /\ GoodPrefixLen = 2
    /\ HasCRLF(1)
    /\ pos = Len(stream)
    /\ Produced = <<frames[1].ev, frames[2].ev>>
    /\ result = NoExc

\* C9: every HMSG event of a Parser has as header the first k - 4 bytes of
\* its frame's payload region and as payload the bytes k..n-1 of it, where k
\* and n are the header_size and total_size of the frame's control line.
HeaderBoundary ==
    impl = "Parser" =>
        \A i \in 1..Len(Produced) :
            ( /\ i <= Len(frames)
              /\ i <= GoodPrefixLen + 1
              /\ frames[i].kind = "HMSG"
              /\ Produced[i].operation = "HMSG" ) =>
                LET k == frames[i].header_size
                    n == frames[i].total_size
                IN /\ Len(Produced[i].header) = k - 4
                   /\ Len(Produced[i].payload) = n - k
                   /\ Produced[i].header = SliceTo(frames[i].region, k - 4)
                   /\ Produced[i].payload = Slice(frames[i].region, k, n)

\* The bytes of a frame with the letters of its verb in upper case.
UpperVerb(bytes) ==
    LET sp   == Find(bytes, SP)
        cr   == Find(bytes, <<Character_carriage_return>>)
        stop == IF sp >= 0 /\ sp < cr THEN sp ELSE cr
    IN [k \in 1..Len(bytes) |->
           IF k <= stop /\ bytes[k] \in 97..122 THEN bytes[k] - 32 ELSE bytes[k]]

\* C10: a Parser given one frame whose verb is written in any mix of cases
\* accepts it and produces the event it produces for the upper-case form, and
\* the subject, reply_to and payload of a MSG or HMSG event are the bytes of
\* the frame.
CaseInsensitive ==
    (impl = "Parser" /\ frames \in CaseStreams /\ pos = Len(stream)) =>
        /\ first_failure = NoExc
        /\ parser.data_received = <<>>
        /\ Len(Produced) = 1
        /\ Produced = OneShot(UpperVerb(stream))
        /\ frames[1].kind \in {"MSG", "HMSG"} =>
               /\ Produced[1].subject = frames[1].ev.subject
               /\ Produced[1].reply_to = frames[1].ev.reply_to
               /\ Produced[1].payload = frames[1].ev.payload

\* A MSG frame whose verb has a lower-case letter has been parsed.
MixedCaseParsed ==
    /\ impl = "Parser"
    /\ frames \in CaseStreams
    /\ frames[1].kind = "MSG"
    /\ stream # UpperVerb(stream)
    /\ pos = Len(stream)
    /\ Produced = <<frames[1].ev>>

(***************************************************************************)
(* SpecLines: one Parser fed control lines with every number of arguments,  *)
(* numbers that are no decimal numbers, line ends that are not CR LF,       *)
(* payloads that no CR LF follows, and first bytes that start no verb.      *)
(***************************************************************************)
\* The tokens with one space between each two of them.
RECURSIVE Join(_)
Join(toks) ==
    IF toks = <<>> THEN <<>>
    ELSE IF Len(toks) = 1 THEN toks[1]
    ELSE toks[1] \o SP \o Join(Tail(toks))

\* verb SP args CRLF after: a MSG or HMSG control line with any arguments,
\* and the bytes after it.
LineFrame(verb, args, after) == BadFrame(verb \o SP \o Join(args) \o CRLF \o after)

\* A well-formed frame f whose closing LF is another byte.
NoLfFrame(f, byte) ==
    Frame("CRX", SliceTo(f.bytes, Len(f.bytes) - 1) \o <<byte>>, FALSE, None)

\* -ERR SP text CRLF where text holds a LF that no CR precedes.
BareLfFrame(text) == Frame("BARELF", V_ERR \o SP \o text \o CRLF, FALSE, None)

\* A well-formed MSG or HMSG frame f with two other bytes for its closing CRLF.
BadTrailerFrame(f, two) ==
    [Frame("TRAIL", SliceTo(f.bytes, Len(f.bytes) - CRLF_SIZE) \o two, FALSE, None)
        EXCEPT !.header_size = f.header_size,
               !.total_size = f.total_size,
               !.region = f.region]

T_1 == <<49>>                              \* 1
T_2 == <<50>>                              \* 2
T_ab == <<97, 98>>                         \* ab

LineWellFormed ==
    { \* -ERR 'A b'   and   -ERR Ab'
      ErrFrame(V_ERR, ErrText), ErrFrame(V_ERR, <<65, 98, 39>>),
      \* MSG A.b 7 2 / ab   and   MSG A.b 7 Rp 2 / ab
      MsgFrame(V_MSG, Subject, 7, <<>>, T_ab), MsgFrame(V_MSG, Subject, 7, Reply, T_ab),
      \* HMSG A.b 7 4 6 / CRLF CRLF ab   and   HMSG A.b 7 Rp 4 6 / CRLF CRLF ab
      HmsgFrame(V_HMSG, Subject, 7, <<>>, <<>>, T_ab),
      HmsgFrame(V_HMSG, Subject, 7, Reply, <<>>, T_ab) }

LineMalformed ==
    { \* MSG with 2 and with 5 arguments
      LineFrame(V_MSG, <<Subject, T_2>>, T_ab \o CRLF),
      LineFrame(V_MSG, <<Subject, T_1, Reply, Reply, T_2>>, T_ab \o CRLF),
      \* HMSG with 3 and with 6 arguments
      LineFrame(V_HMSG, <<Subject, T_1, <<54>>>>, STOP_HEADER \o T_ab \o CRLF),
      LineFrame(V_HMSG, <<Subject, T_1, Reply, Reply, <<52>>, <<54>>>>,
                STOP_HEADER \o T_ab \o CRLF),
      \* MSG A.b x 2, MSG A.b 1 -1, MSG A.b 1 (empty) 2, MSG A.b 1 2x
      LineFrame(V_MSG, <<Subject, <<120>>, T_2>>, T_ab \o CRLF),
      LineFrame(V_MSG, <<Subject, T_1, <<45, 49>>>>, T_ab \o CRLF),
      LineFrame(V_MSG, <<Subject, <<>>, T_1, T_2>>, T_ab \o CRLF),
      LineFrame(V_MSG, <<Subject, T_1, <<50, 120>>>>, T_ab \o CRLF),
      \* MSG (empty) 1 2   and   HMSG (empty) 1 4 6
      LineFrame(V_MSG, <<<<>>, T_1, T_2>>, T_ab \o CRLF),
      LineFrame(V_HMSG, <<<<>>, T_1, <<52>>, <<54>>>>, STOP_HEADER \o T_ab \o CRLF),
      \* HMSG A.b 1 x 6, HMSG A.b -1 4 6
      LineFrame(V_HMSG, <<Subject, T_1, <<120>>, <<54>>>>, STOP_HEADER \o T_ab \o CRLF),
      LineFrame(V_HMSG, <<Subject, <<45, 49>>, <<52>>, <<54>>>>, STOP_HEADER \o T_ab \o CRLF),
      \* PING CR X, PONG CR CR, +OK CR SP, -ERR 'A b' CR X
      NoLfFrame(PingFrame(V_PING), 88), NoLfFrame(PongFrame(V_PONG), 13),
      NoLfFrame(OkFrame(V_OK), 32), NoLfFrame(ErrFrame(V_ERR, ErrText), 88),
      \* -ERR a LF b
      BareLfFrame(<<97, 10, 98>>),
      \* MSG A.b 7 2 / ab XY   and   HMSG A.b 7 4 6 / CRLF CRLF ab CR X
      BadTrailerFrame(MsgFrame(V_MSG, Subject, 7, <<>>, T_ab), <<88, 89>>),
      BadTrailerFrame(HmsgFrame(V_HMSG, Subject, 7, <<>>, <<>>, T_ab), <<13, 88>>),
      \* first bytes X, SP, CR, 1 and S before "ING CR LF"
      BadFrame(<<88, 73, 78, 71>> \o CRLF), BadFrame(<<32, 73, 78, 71>> \o CRLF),
      BadFrame(<<13, 73, 78, 71>> \o CRLF), BadFrame(<<49, 73, 78, 71>> \o CRLF),
      BadFrame(<<83, 73, 78, 71>> \o CRLF) }

LineFrames == LineWellFormed \cup LineMalformed

\* A frame of fs with at most MaxFollow followers around it.
StreamsOf(fs) ==
    { st \in { pre \o <<x>> \o post :
                 x \in fs,
                 pre \in FollowerSeqs(MaxFollow),
                 post \in FollowerSeqs(MaxFollow) } :
        Len(st) <= MaxFollow + 1 }

LineStreams == StreamsOf(LineFrames)

InitLines == InitFor(LineStreams, {"Parser"})

SpecLines == InitLines /\ [][Next]_vars

\* The offset in the stream at which frame i starts.
Start(i) == End(i - 1)

\* The index of the first frame that is not well-formed (Len(frames) + 1 when
\* every frame is well-formed).
FirstBad == GoodPrefixLen + 1

\* The arguments of a MSG or HMSG control line: the text between the first
\* space and the first CR LF, cut at every space.
ArgsOf(bytes) ==
    Split(Slice(bytes, Find(bytes, SP) + 1, Find(bytes, CRLF)), Character_space)

IsMsgLine(bytes) == Head(bytes) \in {Character_M, Character_m}
IsHmsgLine(bytes) == Head(bytes) \in {Character_H, Character_h}

\* The frame has the bytes of a control line with an accepted number of arguments.
ArgCountOk(bytes) ==
    \/ IsMsgLine(bytes) /\ Len(ArgsOf(bytes)) \in {3, 4}
    \/ IsHmsgLine(bytes) /\ Len(ArgsOf(bytes)) \in {4, 5}

\* The sid, header_size and total_size tokens of such a line.
NumberTokens(bytes) ==
    LET args == ArgsOf(bytes)
        n    == Len(args)
    IN IF IsMsgLine(bytes) THEN {args[2], args[n]}
       ELSE {args[2], args[n - 1], args[n]}

\* The token is a non-negative decimal integer: one or more digits.
IsDecimal(tok) == tok # <<>> /\ \A k \in 1..Len(tok) : IsDigit(tok[k])

\* The first frame that is not well-formed is a MSG or HMSG line with an
\* accepted number of arguments, one of whose numbers is no decimal integer.
BadNumberLine ==
    /\ FirstBad <= Len(frames)
    /\ frames[FirstBad].kind = "BAD"
    /\ ArgCountOk(frames[FirstBad].bytes)
    /\ \E tok \in NumberTokens(frames[FirstBad].bytes) : ~IsDecimal(tok)

\* The control line of frame i, its CR included, has been given to parse().
LineGiven(i) == pos >= Start(i) + Find(frames[i].bytes, CRLF) + 1

\* C11: a MSG or HMSG control line whose sid, header_size or total_size token is
\* not a non-negative decimal integer makes parse() raise ProtocolError, and no
\* event is emitted for that frame.
BadNumberRejected ==
    BadNumberLine =>
        /\ Len(Produced) <= GoodPrefixLen
        /\ LineGiven(FirstBad) => first_failure.type = "ProtocolError"

\* Frame i has the bytes of a MSG or HMSG control line.
IsArgLine(i) ==
    /\ frames[i].kind \in {"MSG", "HMSG", "BAD", "TRAIL"}
    /\ IsMsgLine(frames[i].bytes) \/ IsHmsgLine(frames[i].bytes)

\* The reply_to of a control line with an accepted number of arguments: the
\* third argument when there is one more than the least number, else empty.
ReplyOf(bytes) ==
    LET args == ArgsOf(bytes)
    IN IF Len(args) = (IF IsMsgLine(bytes) THEN 4 ELSE 5) THEN args[3] ELSE <<>>

\* C12: the MSG argument line is split on single spaces; 3 arguments give an
\* empty reply_to, 4 give reply_to = the third; HMSG takes 4 (no reply_to) and
\* 5 (reply_to = the third); every other number of arguments raises
\* ProtocolError and emits no event.
TokenCountRule ==
    \A i \in 1..Len(frames) :
        (i <= FirstBad /\ IsArgLine(i)) =>
            IF ArgCountOk(frames[i].bytes)
            THEN Len(Produced) >= i => Produced[i].reply_to = ReplyOf(frames[i].bytes)
            ELSE /\ Len(Produced) < i
                 /\ LineGiven(i) => first_failure.type = "ProtocolError"

\* A MSG line of 4 arguments gave an event with its third argument as
\* reply_to, and the MSG line of 3 arguments after it one with an empty reply_to.
ReplyParsed ==
    /\ Len(frames) = 2
    /\ frames[1].kind = "MSG" /\ Len(ArgsOf(frames[1].bytes)) = 4
    /\ frames[2].kind = "MSG" /\ Len(ArgsOf(frames[2].bytes)) = 3
    /\ Len(Produced) = 2
    /\ Produced[1].reply_to = Reply
    /\ Produced[2].reply_to = <<>>

\* The last byte of frame i.
LastByte(i) == frames[i].bytes[Len(frames[i].bytes)]

\* C13: inside +OK, -ERR, PING and PONG frames the CR must be followed by LF:
\* once the byte after the CR has been given, parse() has raised ProtocolError on
\* that byte; and a LF inside the text of -ERR that no CR precedes makes parse()
\* raise ProtocolError.
LineEndChecked ==
    FirstBad <= Len(frames) =>
        /\ (frames[FirstBad].kind = "CRX" /\ pos >= End(FirstBad)) =>
               /\ first_failure.type = "ProtocolError"
               /\ first_failure.invalid_byte = LastByte(FirstBad)
        /\ (frames[FirstBad].kind = "BARELF"
              /\ pos > Start(FirstBad) + Find(frames[FirstBad].bytes, <<Character_newline>>)) =>
               /\ first_failure.type = "ProtocolError"
               /\ first_failure.invalid_byte = Character_newline

\* -ERR 'A b' CR X after a well-formed frame was given whole and parse() raised
\* ProtocolError on the X.
CrWithoutLfRaised ==
    /\ Len(frames) = 2
    /\ frames[1].wf
    /\ frames[2].kind = "CRX"
    /\ Head(frames[2].bytes) = Character_minus
    /\ pos = Len(stream)
    /\ first_failure.type = "ProtocolError"
    /\ first_failure.invalid_byte = LastByte(2)
    /\ LastByte(2) # Character_newline

\* C14: a MSG or HMSG payload is completed only when CR LF follows its total_size
\* bytes: when the two bytes after the payload region are not CR LF, no MSG or
\* HMSG event is emitted for the frame.
TrailerRequired ==
    (FirstBad <= Len(frames) /\ frames[FirstBad].kind = "TRAIL") =>
        Len(Produced) <= GoodPrefixLen

\* The header block of HMSG frame i: the first header_size bytes of its
\* payload region.
HeaderBlock(i) == SliceTo(frames[i].region, frames[i].header_size)

\* The header block of frame i does not end with CR LF CR LF.
BadHeaderBlock(i) ==
    \/ frames[i].header_size < 4
    \/ SliceFrom(HeaderBlock(i), Len(HeaderBlock(i)) - 4) # STOP_HEADER

\* The offset in the stream at which the payload region of frame i and the
\* two bytes after it end.
RegionEnd(i) ==
    Start(i) + Find(frames[i].bytes, CRLF) + CRLF_SIZE + frames[i].total_size + CRLF_SIZE

\* C15: an HMSG frame whose header block does not end with CR LF CR LF makes
\* parse() raise ProtocolError once the payload region is available, and no
\* HMSG event is emitted for it; every header_size smaller than 4 included.
HeaderEndChecked ==
    ( /\ FirstBad <= Len(frames)
      /\ frames[FirstBad].kind = "HMSG"
      /\ BadHeaderBlock(FirstBad) ) =>
        /\ Len(Produced) <= GoodPrefixLen
        /\ pos >= RegionEnd(FirstBad) => first_failure.type = "ProtocolError"

\* The bytes a control line can start with.
VerbStarts ==
    {Character_M, Character_m, Character_H, Character_h, Character_P, Character_p,
     Character_I, Character_i, Character_plus, Character_minus}

\* C16: at the start of a control line (state OP_START) a first byte other than
\* M/m, H/h, P/p, I/i, '+' or '-' makes parse() raise ProtocolError whose
\* invalid_byte is that byte, and no event is emitted for it.
UnknownVerbRejected ==
    ( /\ FirstBad <= Len(frames)
      /\ Head(frames[FirstBad].bytes) \notin VerbStarts
      /\ pos > Start(FirstBad) ) =>
        /\ first_failure.type = "ProtocolError"
        /\ first_failure.invalid_byte = Head(frames[FirstBad].bytes)
        /\ Len(Produced) = GoodPrefixLen

\* After a well-formed frame a line starting with a byte of no verb was given
\* and parse() raised ProtocolError on that byte.
UnknownVerbRaised ==
    /\ Len(frames) = 2
    /\ frames[1].wf
    /\ Head(frames[2].bytes) \notin VerbStarts
    /\ pos > Start(2)
    /\ first_failure = result
    /\ result.type = "ProtocolError"
    /\ result.invalid_byte = Head(frames[2].bytes)
    /\ Len(Produced) = 1

\* Frame i is "-ERR", a space, a text and CR (then LF, or another byte).
IsErrLine(i) == frames[i].kind \in {"ERR", "CRX"} /\ Head(frames[i].bytes) = Character_minus

\* The text of such a frame: the bytes between "-ERR " and the CR.
ErrTextOf(i) == Slice(frames[i].bytes, Len(V_ERR) + 1, Len(frames[i].bytes) - CRLF_SIZE)

\* C17: the message of an emitted ERR event is exactly the text between "-ERR "
\* and the terminating CR LF, verbatim: the single quotes around it are kept and
\* the case of its letters is unchanged, for every chunking of the frame.
ErrTextVerbatim ==
    \A i \in 1..Len(Produced) :
        (i <= Len(frames) /\ i <= FirstBad /\ IsErrLine(i)) =>
            /\ Produced[i].operation = "ERR"
            /\ Produced[i].message = ErrTextOf(i)

\* The frame -ERR 'A b' was given whole and its event holds the quotes and
\* the capital A.
QuotedErrEmitted ==
    /\ frames[1].kind = "ERR"
    /\ ErrTextOf(1) = ErrText
    /\ Head(ErrText) = 39
    /\ pos = End(1)
    /\ Len(Produced) = 1
    /\ Produced[1].message = ErrText

(***************************************************************************)
(* SpecTwin: a Parser300 or a Parser310 (parser.sut) and a Parser           *)
(* (parser.ref) given the same chunks of the same stream by the same calls. *)
(* result, first_failure, delivered and returned hold one value for each.   *)
(***************************************************************************)
Both(x) == [sut |-> x, ref |-> x]

TwinStreams == Streams \cup CaseStreams

InitTwin ==
    /\ frames \in TwinStreams
    /\ impl \in {"Parser300", "Parser310"}
    /\ parser = [sut |-> NewParser(impl), ref |-> Parser_init(0)]
    /\ pos = 0
    /\ result = Both(NoExc)
    /\ first_failure = Both(NoExc)
    /\ retried = FALSE
    /\ delivered = Both(<<>>)
    /\ returned = Both(<<>>)
    /\ lastop = "init"

\* The caller's bookkeeping around parse() on both parsers, with outcomes r
\* and q, on k more bytes.
TwinCalled(r, q, k) ==
    /\ parser' = [sut |-> r.p, ref |-> q.p]
    /\ result' = [sut |-> r.exc, ref |-> q.exc]
    /\ pos' = pos + k
    /\ first_failure' =
           [sut |-> IF first_failure.sut = NoExc THEN r.exc ELSE first_failure.sut,
            ref |-> IF first_failure.ref = NoExc THEN q.exc ELSE first_failure.ref]
    /\ retried' = (retried \/ first_failure # Both(NoExc))
    /\ lastop' = "parse"
    /\ UNCHANGED <<frames, impl, delivered, returned>>

\* The caller's bookkeeping around a drain of both parsers, with outcomes r and q.
TwinDrained(r, q) ==
    /\ parser' = [sut |-> r.p, ref |-> q.p]
    /\ returned' = [sut |-> r.events, ref |-> q.events]
    /\ delivered' = [sut |-> delivered.sut \o r.events, ref |-> delivered.ref \o q.events]
    /\ lastop' = "events"
    /\ UNCHANGED <<frames, impl, pos, result, first_failure, retried>>

\* parse(chunk) on a Parser300 and on a Parser
Twin300Parse(k) ==
    /\ impl = "Parser300"
    /\ TwinCalled(Parser300_parse(parser.sut, SubSeq(stream, pos + 1, pos + k)),
                  Parser_parse(parser.ref, SubSeq(stream, pos + 1, pos + k)), k)

\* events_received() on a Parser300 and events() on a Parser
Twin300Events ==
    /\ impl = "Parser300"
    /\ TwinDrained(Parser300_events_received(parser.sut), Parser_events(parser.ref))

\* parse(chunk) on a Parser310 and on a Parser
Twin310Parse(k) ==
    /\ impl = "Parser310"
    /\ TwinCalled(Parser310_parse(parser.sut, SubSeq(stream, pos + 1, pos + k)),
                  Parser_parse(parser.ref, SubSeq(stream, pos + 1, pos + k)), k)

\* events_received() on a Parser310 and events() on a Parser
Twin310Events ==
    /\ impl = "Parser310"
    /\ TwinDrained(Parser310_events_received(parser.sut), Parser_events(parser.ref))

NextTwin ==
    \/ \E k \in ChunkSizes : Twin300Parse(k)
    \/ Twin300Events
    \/ \E k \in ChunkSizes : Twin310Parse(k)
    \/ Twin310Events

SpecTwin == InitTwin /\ [][NextTwin]_vars

\* The events each parser has emitted: those drained, then those queued.
ProducedSut ==
    delivered.sut \o
        (IF impl = "Parser300" THEN Parser300_events_received(parser.sut).events
         ELSE Parser310_events_received(parser.sut).events)
ProducedRef == delivered.ref \o Parser_events(parser.ref).events

\* The fields the events of all three parsers have: a MSG event of Parser300
\* has no header.
Shared(e) ==
    IF e.operation = "MSG"
    THEN [operation |-> e.operation, sid |-> e.sid, subject |-> e.subject,
          reply_to |-> e.reply_to, payload |-> e.payload]
    ELSE e

SharedAll(es) == [i \in 1..Len(es) |-> Shared(es[i])]

\* Once the whole stream has been given, both parsers have accepted it or both
\* have rejected it, and both have emitted the same events.
Agree ==
    pos = Len(stream) =>
        /\ (first_failure.sut = NoExc) <=> (first_failure.ref = NoExc)
        /\ SharedAll(ProducedSut) = SharedAll(ProducedRef)

\* C18: Parser310 is equivalent to Parser: for every byte stream and every
\* chunking both accept or both reject, and both emit the same sequence of
\* events with the same fields.
Parser310Equivalent == impl = "Parser310" => Agree

\* C19: Parser300 is equivalent to Parser: for every byte stream and every
\* chunking both accept or both reject, and both emit the same sequence of
\* events with the same fields, lower-case verbs, verb literals other than the
\* first byte and the ERR message text included.
Parser300Equivalent == impl = "Parser300" => Agree

(***************************************************************************)
(* SpecVersion: parse_version applied to a version text.  parser holds the  *)
(* argument, result the exception raised and returned the Version returned. *)
(***************************************************************************)
MaxVersionLen == 5

\* The characters of the version texts: 2 . - r
VersionChars == {50, 46, Character_minus, 114}

VersionTexts == UNION {[1..n -> VersionChars] : n \in 1..MaxVersionLen}

InitVersion ==
    /\ frames = <<>>
    /\ impl = "parse_version"
    /\ parser \in {[version |-> text] : text \in VersionTexts}
    /\ pos = 0
    /\ result = NoExc
    /\ first_failure = NoExc
    /\ retried = FALSE
    /\ delivered = <<>>
    /\ returned = None
    /\ lastop = "init"

\* The caller's bookkeeping around a parse_version call with outcome r.
VersionCalled(r) ==
    /\ result' = r.exc
    /\ returned' = IF r.exc = NoExc THEN r.val ELSE None
    /\ first_failure' = IF first_failure = NoExc THEN r.exc ELSE first_failure
    /\ lastop' = "parse_version"
    /\ UNCHANGED <<frames, impl, parser, pos, retried, delivered>>

\* parse_version(version)
ParseVersion ==
    /\ impl = "parse_version"
    /\ lastop = "init"
    /\ VersionCalled(parse_version([t |-> "str", v |-> parser.version]))

NextVersion == ParseVersion

SpecVersion == InitVersion /\ [][NextVersion]_vars

\* The text before the first '-' of a version text, and the whole text after it.
VersionPrefix(text) ==
    IF Find(text, <<Character_minus>>) < 0 THEN text
    ELSE SliceTo(text, Find(text, <<Character_minus>>))
VersionSuffix(text) ==
    IF Find(text, <<Character_minus>>) < 0 THEN <<>>
    ELSE SliceFrom(text, Find(text, <<Character_minus>>) + 1)

\* Token k (from 1) of the prefix cut at every '.', as a number; 0 when absent.
VersionToken(text, k) ==
    LET tokens == Split(VersionPrefix(text), 46)
    IN IF k <= Len(tokens) THEN PyInt(tokens[k]).val ELSE 0

\* The first three tokens of the prefix, where present, are decimal numbers.
VersionReadable(text) ==
    LET tokens == Split(VersionPrefix(text), 46)
    IN \A k \in 1..Len(tokens) : k <= 3 => IsDecimal(tokens[k])

\* C20: parse_version splits the text on the first '-' (the whole suffix after
\* it, if any, is dev), then the prefix on '.', and takes major, minor and patch
\* from tokens 0, 1 and 2 when present and 0 otherwise: X.Y.Z gives major = X,
\* minor = Y, patch = Z.
VersionDecoded ==
    (lastop = "parse_version" /\ VersionReadable(parser.version)) =>
        /\ result = NoExc
        /\ returned = Version(VersionToken(parser.version, 1),
                              VersionToken(parser.version, 2),
                              VersionToken(parser.version, 3),
                              VersionSuffix(parser.version))

(***************************************************************************)
(* Suspension and resumption of a Parser inside a frame.                    *)
(***************************************************************************)
\* The parser p awaits a MSG or HMSG payload: its generator is suspended in
\* one of the payload states.
AwaitsPayload(p) ==
    /\ p.loop = "suspended"
    /\ Parser_state(p) \in {"MSG_PAYLOAD", "HMSG_PAYLOAD"}

\* The bytes p still needs: fewer than total_size + 2 bytes are buffered.
ShortOfBytes(p) == Len(p.data_received) < p.expected_total_size + CRLF_SIZE

\* The chunk the step gives to parse().
StepChunk == SubSeq(stream, pos + 1, pos')

\* C21: when the parser awaits a MSG or HMSG payload and fewer than
\* total_size + 2 bytes are buffered, parse() returns normally, enqueues no
\* event, keeps every buffered byte and leaves the state, the expected sizes
\* and the partial message unchanged; the frame completes on a later parse()
\* once total_size + 2 bytes are available (its event is appended, or the HMSG
\* header block is rejected).
SuspendsOnShortage ==
    [][ ( /\ impl = "Parser"
          /\ lastop' = "parse"
          /\ AwaitsPayload(parser)
          /\ ShortOfBytes(parser) ) =>
            IF Len(parser.data_received) + Len(StepChunk)
                   < parser.expected_total_size + CRLF_SIZE
            THEN /\ result' = NoExc
                 /\ parser' = [parser EXCEPT !.data_received = @ \o StepChunk]
            ELSE \/ /\ Len(parser'.events_received) > Len(parser.events_received)
                    /\ parser'.events_received[Len(parser.events_received) + 1].sid
                           = parser.partial_msg.sid
                    /\ parser'.events_received[Len(parser.events_received) + 1].payload
                           = Slice(parser.data_received \o StepChunk,
                                   IF Parser_state(parser) = "MSG_PAYLOAD" THEN 0
                                   ELSE parser.expected_header_size,
                                   parser.expected_total_size)
                 \/ /\ Parser_state(parser) = "HMSG_PAYLOAD"
                    /\ result'.type = "ProtocolError"
                    /\ parser'.events_received = parser.events_received
      ]_vars

\* A parse() call has returned normally with the parser awaiting a payload,
\* some of its bytes buffered and others missing.
SuspendedInPayload ==
    /\ impl = "Parser"
    /\ lastop = "parse"
    /\ result = NoExc
    /\ AwaitsPayload(parser)
    /\ ShortOfBytes(parser)
    /\ parser.data_received # <<>>
    /\ parser.partial_msg # None
    /\ parser.events_received = <<>>

\* The step gives parse() the whole of frames i+1 .. j, all well-formed, the
\* first of them a MSG or HMSG, to a parser that is at the start of a control
\* line with an empty buffer.
GivesFrames(i, j) ==
    /\ impl = "Parser"
    /\ lastop' = "parse"
    /\ i < j /\ j <= GoodPrefixLen
    /\ pos = End(i) /\ pos' = End(j)
    /\ parser.loop = "suspended"
    /\ parser.data_received = <<>>
    /\ Parser_state(parser) = "OP_START"
    /\ frames[i + 1].kind \in {"MSG", "HMSG"}

\* C22: after a MSG/HMSG payload completes the parser appends the event, is
\* back at OP_START and goes on consuming the buffer within the same parse()
\* call: a single chunk holding several complete frames yields all their
\* events, in order, before parse() returns.
DrainsWholeChunk ==
    [][ \A i \in 0..Len(frames) : \A j \in 1..Len(frames) :
          GivesFrames(i, j) =>
            /\ result' = NoExc
            /\ Keys(parser'.events_received) =
                   Keys(parser.events_received) \o SubSeq(GoodEvents, i + 1, j)
            /\ Parser_state(parser') = "OP_START"
            /\ parser'.data_received = <<>>
      ]_vars

\* A MSG or HMSG frame and the frame after it were given and both their
\* events are in the queue, none drained, the parser at OP_START.
TwoFramesQueued ==
    /\ impl = "Parser"
    /\ Len(frames) = 2
    /\ GoodPrefixLen = 2
    /\ frames[1].kind \in {"MSG", "HMSG"}
    /\ pos = Len(stream)
    /\ lastop = "parse"
    /\ delivered = <<>>
    /\ Keys(parser.events_received) = GoodEvents
    /\ Parser_state(parser) = "OP_START"

\* C23: whenever the parser is awaiting an HMSG payload (state HMSG_PAYLOAD),
\* the stored sizes satisfy expected_total_size >= expected_header_size >= 4:
\* an HMSG control line with header_size < 4 or total_size < header_size never
\* puts the parser into the payload-waiting state.
HeaderSizesOrdered ==
    (impl = "Parser" /\ Parser_state(parser) = "HMSG_PAYLOAD") =>
        /\ parser.expected_header_size >= 4
        /\ parser.expected_total_size >= parser.expected_header_size

\* C24: at every point where parse() has returned normally, partial_msg is not
\* None if and only if the state is one that awaits a payload (MSG_PAYLOAD or
\* HMSG_PAYLOAD): it is created when the control line completes and cleared
\* when the payload completes.
PartialMsgIffPayload ==
    (impl = "Parser" /\ first_failure = NoExc) =>
        (parser.partial_msg # None
            <=> Parser_state(parser) \in {"MSG_PAYLOAD", "HMSG_PAYLOAD"})

\* The offset in the stream of the first byte the buffer holds: the buffer is
\* the end of what parse() has been given.
BufferStart == pos - Len(parser.data_received)

\* The offset in the stream at which the payload region of frame i starts.
RegionStart(i) == Start(i) + Find(frames[i].bytes, CRLF) + CRLF_SIZE

\* The offset in the stream after the last byte delivered in event e of frame
\* i: a payload is cut from the start of the region (MSG) or from header_size
\* on (HMSG), a header from the start of the region.
DeliveredEnd(i, e) ==
    IF e.operation = "MSG" THEN RegionStart(i) + Len(e.payload)
    ELSE IF e.payload # <<>>
         THEN RegionStart(i) + frames[i].header_size + Len(e.payload)
         ELSE RegionStart(i) + Len(e.header)

\* C25: no input byte is processed twice: after an event is emitted, none of
\* the stream bytes delivered in that event's header or payload remains in the
\* buffer, for every input and chunking.
NoByteTwice ==
    impl = "Parser" =>
        \A i \in 1..Len(Produced) :
            (i <= Len(frames) /\ i <= FirstBad
               /\ Produced[i].operation \in {"MSG", "HMSG"}) =>
                BufferStart >= DeliveredEnd(i, Produced[i])

(***************************************************************************)
(* Back-to-back frames in one chunk, Parser300 and Parser310.               *)
(***************************************************************************)
\* The step is the first parse() of a parser of the class, on a chunk that
\* holds two well-formed frames and nothing else, the first of one of the kinds.
GivesTwoFrames(class, kinds) ==
    /\ impl = class
    /\ lastop = "init" /\ lastop' = "parse"
    /\ pos' = Len(stream)
    /\ Len(frames) = 2 /\ GoodPrefixLen = 2
    /\ frames[1].kind \in kinds

\* Both events are emitted by the call, which returns normally.
BothEmitted ==
    /\ result' = NoExc
    /\ SharedAll(Keys(parser'.events_received)) = SharedAll(GoodEvents)

\* C26: in Parser300, completing a frame consumes exactly that frame's bytes and
\* nothing more: when one chunk holds two back-to-back well-formed frames (+OK
\* then PING, INFO then PING, a MSG/HMSG with its payload then PING), both
\* events are emitted and no byte of the second frame is lost.
Parser300KeepsNextFrame ==
    [][GivesTwoFrames("Parser300", {"OK", "INFO", "MSG", "HMSG"}) => BothEmitted]_vars

\* C27: in Parser310, completing a MSG payload, an HMSG payload or an INFO line
\* consumes exactly that frame's bytes, its trailing CRLF included, and nothing
\* more: when another well-formed frame follows in the same buffer, its first
\* byte is still there and its event is emitted.
Parser310KeepsNextFrame ==
    [][GivesTwoFrames("Parser310", {"MSG", "HMSG", "INFO"}) => BothEmitted]_vars

\* The events of a fresh Parser310 given all the bytes in one parse() call.
OneShot310(bytes) == Parser310_parse(Parser310_init, bytes).p.events_received

\* C28: Parser310 suspends at any byte shortage: when a chunk ends in the middle
\* of a control line, parse() returns normally without raising, and after the
\* remaining bytes are fed by later parse() calls the events equal those of
\* feeding the whole stream in one call.  Stated for the streams of one
\* well-formed frame.
Parser310SuspendsMidLine ==
    (impl = "Parser310" /\ Len(frames) = 1 /\ frames[1].wf) =>
        /\ first_failure = NoExc
        /\ pos = Len(stream) => Produced = OneShot310(stream)

\* C29: only completed frames produce events: an OK, PING, PONG or ERR event is
\* in the queue only if that frame's terminating CR LF has been fully received
\* and checked; after feeding a frame up to and including its CR but not its
\* LF there is no event for that frame, and a frame whose CR is followed by a
\* non-LF byte never contributes an event.
EventsOnlyWhenComplete ==
    \A i \in 1..Len(Produced) :
        ( /\ i <= Len(frames)
          /\ i <= FirstBad
          /\ frames[i].kind \in {"OK", "PING", "PONG", "ERR", "CRX"} ) =>
            /\ frames[i].wf
            /\ pos >= End(i)

(***************************************************************************)
(* SpecLoop: Parser.parse one pass of the while loop at a time.  While a    *)
(* call is inside the loop lastop is "running"; the call returns when the   *)
(* generator yields, raises or finishes.                                   *)
(***************************************************************************)
InitLoop == InitFor(Streams, {"Parser"})

\* How a pass r through the body of the loop leaves the call: continue keeps
\* it in the loop, yield and raise end it.
PassDone(r) ==
    /\ parser' = IF r.ctl = "raise" THEN [r.p EXCEPT !.loop = "finished"] ELSE r.p
    /\ lastop' = IF r.ctl = "continue" THEN "running" ELSE "parse"
    /\ result' = r.exc
    /\ first_failure' = IF first_failure = NoExc THEN r.exc ELSE first_failure
    /\ UNCHANGED <<frames, impl, pos, retried, delivered, returned>>

\* parse(chunk) up to next(self.__loop__): the chunk is appended to the buffer;
\* a finished generator raises StopIteration at once.
LoopCall(k) ==
    /\ lastop # "running"
    /\ parser' = [parser EXCEPT !.data_received = @ \o SubSeq(stream, pos + 1, pos + k)]
    /\ pos' = pos + k
    /\ retried' = (retried \/ first_failure # NoExc)
    /\ lastop' = IF parser.loop = "finished" THEN "parse" ELSE "running"
    /\ result' = IF parser.loop = "finished" THEN OtherExc("StopIteration") ELSE NoExc
    /\ first_failure' = IF first_failure = NoExc THEN result' ELSE first_failure
    /\ UNCHANGED <<frames, impl, delivered, returned>>

\* One pass through the while loop of __parse__: closed ends the generator, an
\* empty buffer suspends it, else the body runs on the first byte.
LoopPass ==
    /\ lastop = "running"
    /\ IF parser.closed
       THEN PassDone([p |-> parser, ctl |-> "raise", exc |-> OtherExc("StopIteration")])
       ELSE IF parser.data_received = <<>> THEN PassDone(Yield(parser))
       ELSE PassDone(Parser_step(parser))

\* events(), between two calls of parse()
LoopEvents ==
    /\ lastop # "running"
    /\ Drained(Parser_events(parser))

NextLoop ==
    \/ \E k \in ChunkSizes : LoopCall(k)
    \/ LoopPass
    \/ LoopEvents

SpecLoop == InitLoop /\ [][NextLoop]_vars

\* The states whose pass may put the byte it took back and change state
\* without shortening the buffer.
PutBackStates == {"OP_INFO_SPC", "MSG_PAYLOAD", "HMSG_PAYLOAD"}

\* The pass that turns p into r.p and stays in the loop shortens the buffer,
\* or leaves a put-back state with the buffer as long as it was.
Progresses(p, r) ==
    r.ctl = "continue" =>
        \/ Len(r.p.data_received) < Len(p.data_received)
        \/ /\ Len(r.p.data_received) = Len(p.data_received)
           /\ Parser_state(p) \in PutBackStates
           /\ Parser_state(r.p) \notin PutBackStates

\* C30: every Parser.parse() call terminates for every finite chunk and every
\* reachable parser state: the loop cannot spin, because the pass the loop is
\* about to make either suspends, or raises, or removes at least one byte from
\* the buffer, or, in OP_INFO_SPC and the payload states, leaves the buffer as
\* long as it was and moves to a state whose pass consumes or suspends.  A call
\* thus makes at most two passes for each buffered byte.
LoopMakesProgress ==
    (lastop = "running" /\ ~parser.closed /\ parser.data_received # <<>>) =>
        Progresses(parser, Parser_step(parser))

\* A parse() call on an INFO frame went through OP_INFO_SPC and INFO_ARG, which
\* put the byte back, and through MSG_PAYLOAD for the frame after it, and has
\* returned with both events.
ReturnedAfterPutBack ==
    /\ Len(frames) = 2
    /\ frames[1].kind = "INFO" /\ frames[1].wf
    /\ frames[2].kind = "MSG"
    /\ pos = Len(stream)
    /\ lastop = "parse"
    /\ result = NoExc
    /\ Len(Produced) = 2

(***************************************************************************)
(* Claims about what a returned parse() leaves behind (Spec).               *)
(***************************************************************************)

\* The frame the parser p is in cannot go on with the bytes p has buffered.
Starved(p) ==
    \/ p.data_received = <<>>
    \/ /\ Parser_state(p) \in {"MSG_PAYLOAD", "HMSG_PAYLOAD"}
       /\ Len(p.data_received) < p.expected_total_size + CRLF_SIZE
    \/ /\ Parser_state(p) = "INFO_ARG"
       /\ Find(p.data_received, CRLF) < 0

\* C31: whenever Parser.parse() returns normally, the buffer is empty, or the
\* state is MSG_PAYLOAD/HMSG_PAYLOAD with fewer than total_size + 2 bytes
\* buffered, or the state is INFO_ARG with no CRLF in the buffer; so no
\* complete frame stays unprocessed in the buffer.
ReturnsOnlyWhenStarved ==
    (impl = "Parser" /\ lastop = "parse" /\ result = NoExc) => Starved(parser)

\* A parse() call has returned with bytes left in the buffer: part of an INFO
\* body, or part of a payload.
ReturnedWithBytesBuffered ==
    /\ impl = "Parser" /\ lastop = "parse" /\ result = NoExc
    /\ parser.data_received # <<>>
    /\ Parser_state(parser) \in {"INFO_ARG", "MSG_PAYLOAD"}
    /\ Len(Produced) >= 1

(***************************************************************************)
(* Claims about the passes of the loop (SpecLoop).                          *)
(***************************************************************************)

\* The operation of the control line that leads to a payload state.
PayloadOperation(state) == IF state = "MSG_PAYLOAD" THEN "MSG" ELSE "HMSG"

\* C32: the assertions "self._partial_msg is not None" of the MSG_PAYLOAD and
\* HMSG_PAYLOAD branches never fail: whenever the loop of a Parser can make a
\* pass in one of those two states, a partial message is present, and it is
\* the one the control line of that kind (MSG, HMSG) created.
PartialMsgPresent ==
    (parser.loop # "finished" /\ Parser_state(parser) \in {"MSG_PAYLOAD", "HMSG_PAYLOAD"}) =>
        /\ parser.partial_msg # None
        /\ parser.partial_msg.operation = PayloadOperation(Parser_state(parser))

\* The loop is about to make a pass in HMSG_PAYLOAD with bytes in the buffer,
\* after a MSG frame has gone through MSG_PAYLOAD.
PassInPayloadState ==
    /\ lastop = "running"
    /\ Parser_state(parser) = "HMSG_PAYLOAD"
    /\ parser.data_received # <<>>
    /\ Len(parser.events_received) = 1
    /\ parser.events_received[1].operation = "MSG"

\* The number of bytes of the stream the loop has taken off the buffer.
Consumed == pos - Len(parser.data_received)

\* A byte with a lower-case letter turned into its upper-case form.
UpperByte(b) == IF b \in 97..122 THEN b - 32 ELSE b

\* The bytes of the stream just before the buffer spell INFO and a space.
AfterInfoVerb ==
    /\ Consumed >= 5
    /\ [k \in 1..4 |-> UpperByte(stream[Consumed - 5 + k])] = V_INFO
    /\ stream[Consumed] = Character_space

\* The pass appends an event of the given operation to the queue.
Appends(operation) ==
    /\ Len(parser'.events_received) = Len(parser.events_received) + 1
    /\ parser'.events_received[Len(parser'.events_received)].operation = operation

\* What a pass in INFO_ARG does with a buffer buf whose first CRLF is at end
\* (-1: none) and whose body up to there parse_info decodes to info.
InfoArgPass(buf, end, info) ==
    /\ Head(buf) = Character_left_json_bracket
    /\ AfterInfoVerb
    /\ IF end < 0
       THEN /\ lastop' = "parse" /\ result' = NoExc
            /\ parser' = parser
       ELSE /\ parser'.data_received = SubSeq(buf, end + CRLF_SIZE + 1, Len(buf))
            /\ IF info.exc = NoExc
               THEN /\ lastop' = "running"
                    /\ parser'.events_received = Append(parser.events_received, info.val)
                    /\ Parser_state(parser') = "OP_START"
               ELSE /\ lastop' = "parse" /\ result' = info.exc
                    /\ parser'.events_received = parser.events_received

\* C33: a Parser emits an INFO event only for a frame whose argument begins
\* with "{" directly after INFO and a space; the body given to parse_info is
\* the bytes from that "{" up to, not including, the first CRLF; the parser
\* suspends while no CRLF is buffered; the bytes after that CRLF stay in the
\* buffer for the next frame.
InfoBodyDelimited ==
    [][ (lastop = "running" /\ ~parser.closed /\ parser.data_received # <<>>) =>
          IF Parser_state(parser) = "INFO_ARG"
          THEN InfoArgPass(parser.data_received,
                           Find(parser.data_received, CRLF),
                           parse_info(SliceTo(parser.data_received,
                                              Find(parser.data_received, CRLF))))
          ELSE ~Appends("INFO")
      ]_vars

\* The loop has appended the event of an INFO frame and goes on with the bytes
\* of the frame after it.
InfoEmittedThenNext ==
    /\ lastop = "running"
    /\ Parser_state(parser) = "OP_START"
    /\ Len(parser.events_received) = 1
    /\ parser.events_received[1].operation = "INFO"
    /\ parser.data_received # <<>>
    /\ Len(frames) = 2 /\ frames[1].kind = "INFO"
    /\ Consumed = Len(frames[1].bytes)

(***************************************************************************)
(* SpecOrder: the comparisons of class Version (parser.py) applied to any   *)
(* two versions whose numbers are in VersionNumbers and whose dev is a text *)
(* of up to MaxDevLen letters, or to a version and None.                    *)
(***************************************************************************)
MaxDevLen == 2

VersionNumbers == {0, 1}

\* The letters of the dev texts: a b
DevChars == {97, 98}

DevTexts == UNION {[1..n -> DevChars] : n \in 0..MaxDevLen}

Versions ==
    {Version(major, minor, patch, dev) :
        major \in VersionNumbers, minor \in VersionNumbers,
        patch \in VersionNumbers, dev \in DevTexts}

\* isinstance(x, Version)
IsVersion(x) == DOMAIN x = {"major", "minor", "patch", "dev"}

\* str.__gt__: the order of the first characters that differ, a proper prefix
\* being the smaller text.
RECURSIVE StrGt(_, _)
StrGt(s, t) ==
    IF s = <<>> THEN FALSE
    ELSE IF t = <<>> THEN TRUE
    ELSE IF Head(s) # Head(t) THEN Head(s) > Head(t)
    ELSE StrGt(Tail(s), Tail(t))

\* Version.__eq__
Version_eq(self, other) ==
    IF ~IsVersion(other) THEN [val |-> FALSE, exc |-> NoExc]
    ELSE [val |-> /\ self.major = other.major
                  /\ self.minor = other.minor
                  /\ self.patch = other.patch
                  /\ self.dev = other.dev,
          exc |-> NoExc]

\* A comparison that stops at the patch number.
Version_gt_numbers(self, other) ==
    IF ~IsVersion(other) THEN [val |-> FALSE, exc |-> OtherExc("TypeError")]
    ELSE [val |-> \/ self.major > other.major
                  \/ /\ self.major = other.major
                     /\ \/ self.minor > other.minor
                        \/ /\ self.minor = other.minor
                           /\ self.patch > other.patch,
          exc |-> NoExc]

\* Version.__gt__
Version_gt(self, other) ==
    IF ~IsVersion(other) THEN [val |-> FALSE, exc |-> OtherExc("TypeError")]
    ELSE [val |-> IF self.major > other.major THEN TRUE
                  ELSE IF self.major = other.major
                  THEN IF self.minor > other.minor THEN TRUE
                       ELSE IF self.minor = other.minor
                       THEN IF self.patch > other.patch THEN TRUE
                            ELSE IF self.patch = other.patch
                            THEN StrGt(self.dev, other.dev)
                            ELSE FALSE
                       ELSE FALSE
                  ELSE FALSE,
          exc |-> NoExc]

\* parser holds the two operands; delivered lists the comparisons made, each
\* with its value.
InitOrder ==
    /\ frames = <<>>
    /\ impl = "Version"
    /\ parser \in {[a |-> a, b |-> b] : a \in Versions, b \in Versions \cup {None}}
    /\ pos = 0
    /\ result = NoExc
    /\ first_failure = NoExc
    /\ retried = FALSE
    /\ delivered = <<>>
    /\ returned = <<>>
    /\ lastop = "init"

\* The caller's bookkeeping around the comparison op with outcome r.
Compared(op, r) ==
    /\ \A i \in 1..Len(delivered) : delivered[i].op # op
    /\ delivered' = Append(delivered, [op |-> op, val |-> r.val, exc |-> r.exc])
    /\ result' = r.exc
    /\ lastop' = op
    /\ UNCHANGED <<frames, impl, parser, pos, first_failure, retried, returned>>

\* a > b
CompareGt == Compared("a > b", Version_gt(parser.a, parser.b))

\* b > a, for a version b
CompareLt == IsVersion(parser.b) /\ Compared("b > a", Version_gt(parser.b, parser.a))

\* a == b
CompareEq == Compared("a == b", Version_eq(parser.a, parser.b))

NextOrder == CompareGt \/ CompareLt \/ CompareEq

SpecOrder == InitOrder /\ [][NextOrder]_vars

\* The text s comes after the text t: t is a proper prefix of s, or s has the
\* greater character at the first place where they differ.
TextAfter(s, t) ==
    \E k \in 1..Len(s) :
        /\ \A j \in 1..(k - 1) : j <= Len(t) /\ s[j] = t[j]
        /\ k > Len(t) \/ (k <= Len(t) /\ s[k] > t[k])

\* Field k of the tuple (major, minor, patch, dev) of a version.
FieldOf(v, k) ==
    CASE k = 1 -> v.major [] k = 2 -> v.minor [] k = 3 -> v.patch [] k = 4 -> v.dev

\* The tuple of x is lexicographically greater than the tuple of y.
TupleGreater(x, y) ==
    \E k \in 1..4 :
        /\ \A j \in 1..(k - 1) : FieldOf(x, j) = FieldOf(y, j)
        /\ IF k = 4 THEN TextAfter(x.dev, y.dev) ELSE FieldOf(x, k) > FieldOf(y, k)

\* The value the comparison op gave, FALSE when it has not been made.
Gave(op) == \E i \in 1..Len(delivered) : delivered[i].op = op /\ delivered[i].val

\* C34: version comparison is the lexicographic order on (major, minor, patch,
\* dev) with dev compared as text: a > b holds exactly when the tuple of a is
\* lexicographically greater than that of b, a == b exactly when all four
\* fields are equal, and of a > b, b > a, a == b exactly one holds.
VersionOrderLexicographic ==
    (impl = "Version" /\ IsVersion(parser.b)) =>
        /\ \A i \in 1..Len(delivered) :
              /\ delivered[i].exc = NoExc
              /\ delivered[i].op = "a > b" =>
                    (delivered[i].val <=> TupleGreater(parser.a, parser.b))
              /\ delivered[i].op = "b > a" =>
                    (delivered[i].val <=> TupleGreater(parser.b, parser.a))
              /\ delivered[i].op = "a == b" =>
                    (delivered[i].val <=>
                        \A k \in 1..4 : FieldOf(parser.a, k) = FieldOf(parser.b, k))
        /\ Len(delivered) = 3 =>
              Cardinality({op \in {"a > b", "b > a", "a == b"} : Gave(op)}) = 1

\* The three comparisons have been made on two versions that differ in dev
\* only, one dev a proper prefix of the other.
ComparedOnDev ==
    /\ impl = "Version" /\ IsVersion(parser.b)
    /\ Len(delivered) = 3
    /\ \A k \in 1..3 : FieldOf(parser.a, k) = FieldOf(parser.b, k)
    /\ parser.a.dev = <<97>> /\ parser.b.dev = <<97, 98>>
    /\ Gave("b > a")

(***************************************************************************)
(* Claims about the arguments of MSG and HMSG events (SpecLines).           *)
(***************************************************************************)

\* The text holds no SP, CR or LF.
OneToken(text) ==
    \A k \in 1..Len(text) :
        text[k] \notin {Character_space, Character_carriage_return, Character_newline}

\* C35: every MSG or HMSG event a Parser emits has a subject that is not
\* empty and holds no SP, CR or LF, and a reply_to, empty or not, that holds
\* no SP, CR or LF.
SubjectsAreTokens ==
    impl = "Parser" =>
        \A i \in 1..Len(Produced) :
            Produced[i].operation \in {"MSG", "HMSG"} =>
                /\ Produced[i].subject # <<>>
                /\ OneToken(Produced[i].subject)
                /\ OneToken(Produced[i].reply_to)

\* A MSG or HMSG line with a reply subject has given its event, after or
\* before a frame whose line has an empty argument or too many.
TokensEmitted ==
    /\ impl = "Parser"
    /\ \E i \in 1..Len(Produced) :
          /\ Produced[i].operation \in {"MSG", "HMSG"}
          /\ Produced[i].reply_to = Reply
          /\ Produced[i].subject = Subject
    /\ pos = Len(stream)

(***************************************************************************)
(* Claims about calls on a parser that has ended (SpecAll).                 *)
(***************************************************************************)

\* The generator of the parser has ended, or will end at its next pass: an
\* earlier call raised, or close() was called on a Parser300.
Ended ==
    \/ impl = "Parser" /\ parser.loop = "finished"
    \/ impl = "Parser300" /\ (parser.loop = "finished" \/ parser.closed)

\* C36: a parse() call on a Parser poisoned by an earlier error, or on a
\* Parser300 after close(), fails, enqueues no event and leaves the event
\* queue as it was, whatever frames the chunk holds; the chunk is appended to
\* the buffer all the same.
EndedParseKeepsQueue ==
    [][ (Ended /\ lastop' = "parse") =>
          /\ result' = IF impl = "Parser" THEN OtherExc("StopIteration")
                       ELSE ParserClosedError
          /\ parser'.events_received = parser.events_received
          /\ parser'.data_received = parser.data_received \o StepChunk
      ]_vars

\* A Parser300 that no call had failed on was closed with an event in its
\* queue, and then given a whole well-formed frame in one chunk.
ClosedThenGivenFrame ==
    /\ impl = "Parser300"
    /\ parser.closed
    /\ lastop = "parse"
    /\ first_failure = ParserClosedError
    /\ Len(frames) = 2 /\ frames[2].wf
    /\ parser.data_received = frames[2].bytes
    /\ Len(parser.events_received) = 1

(***************************************************************************)
(* SpecAlias: one Parser fed any stream of Streams, with the list objects   *)
(* its queue has been.  delivered[id] is the content of list object id, in  *)
(* the order of creation; the last one is the parser's _events_received.    *)
(* returned is the list object the latest events() call returned and the    *)
(* content it had at that time.                                             *)
(***************************************************************************)
MaxDrains == 2

InitAlias ==
    /\ frames \in Streams
    /\ impl = "Parser"
    /\ parser = Parser_init(0)
    /\ pos = 0
    /\ result = NoExc
    /\ first_failure = NoExc
    /\ retried = FALSE
    /\ delivered = <<<<>>>>
    /\ returned = [id |-> 0, snapshot |-> <<>>]
    /\ lastop = "init"

\* The caller's bookkeeping around a parse() call with outcome r on k more
\* bytes: the events are appended to the parser's list object.
AliasCalled(r, k) ==
    /\ parser' = r.p
    /\ result' = r.exc
    /\ pos' = pos + k
    /\ first_failure' = IF first_failure = NoExc THEN r.exc ELSE first_failure
    /\ retried' = (retried \/ first_failure # NoExc)
    /\ delivered' = [delivered EXCEPT ![Len(delivered)] = r.p.events_received]
    /\ lastop' = "parse"
    /\ UNCHANGED <<frames, impl, returned>>

\* The caller's bookkeeping around a drain with outcome r: the caller holds
\* the parser's list object; the parser has a new one, or the same.
AliasDrained(r) ==
    /\ parser' = r.p
    /\ returned' = [id |-> Len(delivered), snapshot |-> r.events]
    /\ delivered' = IF r.fresh THEN Append(delivered, r.p.events_received)
                    ELSE [delivered EXCEPT ![Len(delivered)] = r.p.events_received]
    /\ lastop' = "events"
    /\ UNCHANGED <<frames, impl, pos, result, first_failure, retried>>

\* parser.parse(chunk)
AliasParse(k) == AliasCalled(Parser_parse(parser, SubSeq(stream, pos + 1, pos + k)), k)

\* parser.events(), up to MaxDrains times
AliasEvents ==
    /\ Len(delivered) <= MaxDrains
    /\ AliasDrained(Parser_events(parser))

NextAlias ==
    \/ \E k \in ChunkSizes : AliasParse(k)
    \/ AliasEvents

SpecAlias == InitAlias /\ [][NextAlias]_vars

\* The parser p without the events in its queue.
Emptied(p) == [p EXCEPT !.events_received = <<>>]

\* The step is a parse() call whose outcome is the outcome r of the same call
\* on the parser with an empty queue, with the queued events in front.
QueueBlind(r) ==
    /\ result' = r.exc
    /\ parser' = [r.p EXCEPT !.events_received = parser.events_received \o @]

\* C37: Parser.events() changes nothing but the event queue (buffer, state,
\* expected sizes and partial message stay), so a drain, also in the middle of
\* a frame, does not change what later parse() calls produce; the list an
\* events() call returned is never changed afterwards, and no event changes
\* once it is in a list.
DrainTouchesQueueOnly ==
    [][ /\ lastop' = "events" => parser' = Emptied(parser)
        /\ lastop' = "parse" => QueueBlind(Parser_parse(Emptied(parser), StepChunk))
        /\ returned'.id # 0 => delivered'[returned'.id] = returned'.snapshot
        /\ \A id \in 1..Len(delivered) : IsPrefix(delivered[id], delivered'[id])
      ]_vars

\* events() has returned the event of a first frame while the parser waits in
\* MSG_PAYLOAD, with a partial message and part of the payload buffered, for
\* the rest of the second frame.
DrainedInsideFrame ==
    /\ lastop = "events"
    /\ Parser_state(parser) = "MSG_PAYLOAD"
    /\ parser.partial_msg # None
    /\ parser.data_received # <<>>
    /\ returned.id = 1
    /\ Len(returned.snapshot) = 1
    /\ Len(delivered) = 2

(***************************************************************************)
(* Claims about the argument text (SpecLoop).                               *)
(***************************************************************************)

\* The states in which the arguments of a control line are being gathered.
ArgStates == {"MSG_ARG", "HMSG_ARG", "MINUS_ERR_ARG"}

\* C38: the argument accumulator _partial_ascii_text of a Parser that has not
\* failed is empty whenever the parser is at the start of a control line
\* (state OP_START); it holds text between the first argument byte of a
\* -ERR, MSG or HMSG line and the CR of that line only, so no text of one line
\* reaches the arguments of a later frame.
ArgTextEmptyAtStart ==
    parser.loop # "finished" =>
        /\ Parser_state(parser) = "OP_START" => parser.partial_ascii_text = <<>>
        /\ parser.partial_ascii_text # <<>> => Parser_state(parser) \in ArgStates

\* The loop is back at OP_START, with bytes of a next frame to read, after
\* it has gathered and split the arguments of an HMSG line and emitted the
\* event.
AtStartAfterArgs ==
    /\ lastop = "running"
    /\ Parser_state(parser) = "OP_START"
    /\ parser.data_received # <<>>
    /\ Len(parser.events_received) = 1
    /\ parser.events_received[1].operation = "HMSG"
    /\ parser.events_received[1].reply_to # <<>>

(***************************************************************************)
(* SpecHistory: a Parser created with debug_max_history from -2 up to       *)
(* MaxHistory (parser.sut), beside a Parser with unlimited history          *)
(* (parser.ref), both fed the same chunks of any stream of Streams.         *)
(***************************************************************************)
MaxHistory == 2

InitHistory ==
    /\ frames \in Streams
    /\ impl = "Parser"
    /\ \E h \in -2..MaxHistory :
          /\ parser = [debug_max_history |-> h,
                       sut |-> Parser_new(h).p,
                       ref |-> Parser_new(-1).p]
          /\ result = Parser_new(h).exc
          /\ first_failure = Parser_new(h).exc
    /\ pos = 0
    /\ retried = FALSE
    /\ delivered = <<>>
    /\ returned = <<>>
    /\ lastop = "init"

\* The caller's bookkeeping around parse() calls with outcomes r and q on the
\* two parsers, on k more bytes.
HistoryCalled(r, q, k) ==
    /\ parser' = [parser EXCEPT !.sut = r.p, !.ref = q.p]
    /\ result' = r.exc
    /\ pos' = pos + k
    /\ first_failure' = IF first_failure = NoExc THEN r.exc ELSE first_failure
    /\ retried' = (retried \/ first_failure # NoExc)
    /\ lastop' = "parse"
    /\ UNCHANGED <<frames, impl, delivered, returned>>

\* parse(chunk) on both parsers, when the constructor has returned one
HistoryParse(k) ==
    /\ parser.sut # None
    /\ HistoryCalled(Parser_parse(parser.sut, SubSeq(stream, pos + 1, pos + k)),
                     Parser_parse(parser.ref, SubSeq(stream, pos + 1, pos + k)), k)

NextHistory == \E k \in ChunkSizes : HistoryParse(k)

SpecHistory == InitHistory /\ [][NextHistory]_vars

\* The last n items of a sequence, or all of it when it has fewer.
LastItems(s, n) == IF Len(s) <= n THEN s ELSE SubSeq(s, Len(s) - n + 1, Len(s))

\* The history items of a parser created with debug_max_history = h, beside
\* all the states the parser has been in.
HistoryShape(h, items, all) ==
    /\ items # <<>>
    /\ h >= 0 => Len(items) <= h + 1
    /\ lastop = "init" => items = <<"OP_START">>
    /\ items[Len(items)] = all[Len(all)]
    /\ items = IF h >= 0 THEN LastItems(all, h + 1) ELSE all
    /\ all[1] = "OP_START"

\* In every state: the constructor has raised ValueError below -1, and else
\* the history has its shape.
HistoryInBounds ==
    IF parser.debug_max_history < -1
    THEN result = OtherExc("ValueError") /\ parser.sut = None /\ lastop = "init"
    ELSE /\ lastop = "init" => result = NoExc
         /\ HistoryShape(parser.debug_max_history,
                         parser.sut.state_history.items,
                         parser.ref.state_history.items)

\* C39: for a Parser created with debug_max_history = h >= 0 the state history
\* is never empty, never holds more than h + 1 states, starts as [OP_START]
\* and ends with the current state; with h = -1 the history is unbounded and
\* records every transition in order (it only grows by appending, and the
\* bounded histories are its last h + 1 states); h < -1 is rejected with
\* ValueError.
HistoryKept ==
    /\ []HistoryInBounds
    /\ [][IsPrefix(parser.ref.state_history.items, parser'.ref.state_history.items)]_vars

\* A parser that keeps two states has dropped older ones, while the parser
\* with unlimited history has them all.
HistoryDropped ==
    /\ parser.debug_max_history = 1
    /\ Len(parser.sut.state_history.items) = 2
    /\ Len(parser.ref.state_history.items) > 6
    /\ lastop = "parse"
    /\ result = NoExc

====
